---- MODULE Spec2Model ----
(***************************************************************************)
(* HS-Scheduler reconciliation pipeline.                                   *)
(*   Catalog Merger          src/src/dom.ts    (migrate-schools-to-district)*)
(*   Semester-Pair Collapser src/src/scrape.ts (migrate-collapse-ab-courses)*)
(*   GPA pass       src/src/migrations/migrate-gpa.ts, src/src/schema.ts     *)
(*   Prerequisite Resolver   src/src/scrape.ts (migrate-prerequisites)      *)
(* A text value is a tuple of one-character strings, so that the string    *)
(* operations of the code (whitespace removal, lowercasing, includes,      *)
(* suffix matching) are computed and not assumed.                          *)
(***************************************************************************)
EXTENDS Integers, Sequences, FiniteSets, TLC

VARIABLES
  pc,          \* Merger: position in main ("readdir", "loop", "done", "failed")
  jsonFiles,   \* Merger: the filtered directory listing, in the order readdir gave it
  fi,          \* Merger: number of files of jsonFiles already opened
  curFile,     \* Merger: the parsed file being processed
  ci,          \* Merger: index of the next course of curFile
  schoolName,  \* Merger: school name resolved for curFile
  coursesMap,  \* Merger: the accumulator, as Object.values(coursesMap) lists it
  outFile,     \* Merger: courses written to output/courses.katy-isd.json, or NoFile
  contrib,     \* history: per code, the school lists the sources contributed
  snapshot,    \* history: the accumulator as it was before an identical file was re-read
  cpc,         \* Collapser: position in main
  catalog,     \* Collapser: catalog.courses as parsed from the catalog file
  gi,          \* Collapser: index of the next course to group
  groups,      \* Collapser: the Map of groups, in insertion order
  bi,          \* Collapser: index of the next group to build from
  newCourses,  \* Collapser: the course list being built
  origin,      \* history: for each entry of newCourses, the input indices it was made of
  catalogFile, \* Collapser: catalog file on disk
  fileOrigin,  \* history: for each entry of catalogFile, the input indices it was made of
  gpaPc,       \* GPA pass: position in main
  gpaCatalog,  \* GPA pass: catalog.courses as parsed from the catalog file
  gpaI,        \* GPA pass: the loop index i (from 1)
  prePc,       \* Prerequisite Resolver: position in main
  preCatalog,  \* Prerequisite Resolver: catalog.courses as parsed from the catalog file
  preI,        \* Prerequisite Resolver: the loop index i (from 1)
  unmatchedPrerequisites, \* Prerequisite Resolver: the Map of unmatched texts and counts
  preInput,    \* history: catalog.courses as the Prerequisite Resolver read them
  call,        \* a call of one function by itself: its arguments and what it returned
  runner,      \* pipeline runner: position in main and what runProcess resolved with
  retry,       \* retryOperation: the loop's locals and the delays it has waited
  scroll,      \* scrollToLoadCourses: the loop's locals and the page's course count
  scraper      \* per-school scraper: main's maps and counters, and its output file

vars == <<pc, jsonFiles, fi, curFile, ci, schoolName, coursesMap, outFile, contrib,
          snapshot, cpc, catalog, gi, groups, bi, newCourses, origin, catalogFile,
          fileOrigin, gpaPc, gpaCatalog, gpaI, prePc, preCatalog, preI,
          unmatchedPrerequisites, preInput, call, runner, retry, scroll, scraper>>

mergerVars == <<pc, jsonFiles, fi, curFile, ci, schoolName, coursesMap, outFile,
                contrib, snapshot>>

collapserVars == <<cpc, catalog, gi, groups, bi, newCourses, origin, catalogFile,
                   fileOrigin>>

gpaVars == <<gpaPc, gpaCatalog, gpaI>>

preVars == <<prePc, preCatalog, preI, unmatchedPrerequisites, preInput>>

scrapeVars == <<runner, retry, scroll, scraper>>

-----------------------------------------------------------------------------
(* Bounds *)

\* Largest number of courses in one per-school file.
MaxCourses == 2

\* Largest number of courses in the catalog the Collapser reads.
MaxCatalog == 3

\* Largest number of characters of a course name stripABSuffix is called on.
MaxName == 4

\* Largest number of schools in the schools array of an A or a B entry.
MaxSchools == 2

\* Largest number of pieces a course name given to calculateGPA is put together from.
MaxPieces == 4

\* Largest number of tags of a course given to calculateGPA.
MaxTags == 2

-----------------------------------------------------------------------------
(* Text helpers *)

Min(S) == CHOOSE x \in S : \A y \in S : x <= y

\* Sequences over S of length 0..n.
SeqsUpTo(n, S) == UNION {[1..k -> S] : k \in 0..n}

\* /\s/ of the regular expressions; the model's texts use blank and tab.
IsSpace(c) == c \in {" ", "\t"}

\* String.prototype.toLowerCase of one character.
Lower(c) ==
  CASE c = "A" -> "a" [] c = "B" -> "b" [] c = "C" -> "c" [] c = "D" -> "d"
    [] c = "E" -> "e" [] c = "F" -> "f" [] c = "G" -> "g" [] c = "H" -> "h"
    [] c = "I" -> "i" [] c = "J" -> "j" [] c = "K" -> "k" [] c = "L" -> "l"
    [] c = "M" -> "m" [] c = "N" -> "n" [] c = "O" -> "o" [] c = "P" -> "p"
    [] c = "Q" -> "q" [] c = "R" -> "r" [] c = "S" -> "s" [] c = "T" -> "t"
    [] c = "U" -> "u" [] c = "V" -> "v" [] c = "W" -> "w" [] c = "X" -> "x"
    [] c = "Y" -> "y" [] c = "Z" -> "z"
    [] OTHER -> c

toLowerCase(s) == [i \in 1..Len(s) |-> Lower(s[i])]

\* String.prototype.toUpperCase of one character.
Upper(c) ==
  CASE c = "a" -> "A" [] c = "b" -> "B" [] c = "c" -> "C" [] c = "d" -> "D"
    [] c = "e" -> "E" [] c = "f" -> "F" [] c = "g" -> "G" [] c = "h" -> "H"
    [] c = "i" -> "I" [] c = "j" -> "J" [] c = "k" -> "K" [] c = "l" -> "L"
    [] c = "m" -> "M" [] c = "n" -> "N" [] c = "o" -> "O" [] c = "p" -> "P"
    [] c = "q" -> "Q" [] c = "r" -> "R" [] c = "s" -> "S" [] c = "t" -> "T"
    [] c = "u" -> "U" [] c = "v" -> "V" [] c = "w" -> "W" [] c = "x" -> "X"
    [] c = "y" -> "Y" [] c = "z" -> "Z"
    [] OTHER -> c

toUpperCase(s) == [i \in 1..Len(s) |-> Upper(s[i])]

IsDigit(c) == c \in {"0", "1", "2", "3", "4", "5", "6", "7", "8", "9"}

DigitVal(c) ==
  CASE c = "0" -> 0 [] c = "1" -> 1 [] c = "2" -> 2 [] c = "3" -> 3 [] c = "4" -> 4
    [] c = "5" -> 5 [] c = "6" -> 6 [] c = "7" -> 7 [] c = "8" -> 8 [] c = "9" -> 9

RECURSIVE ToNat(_)
ToNat(s) == IF s = <<>> THEN 0 ELSE 10 * ToNat(SubSeq(s, 1, Len(s) - 1)) + DigitVal(s[Len(s)])

\* The text "n/a".
NA == <<"n", "/", "a">>

-----------------------------------------------------------------------------
(* School names: dom.ts 1085-1113 *)

normalizeSchoolName(name) == toLowerCase(SelectSeq(name, LAMBDA c : ~IsSpace(c)))

\* String.prototype.includes(" ")
includesSpace(name) == \E i \in 1..Len(name) : name[i] = " "

\* null is returned as the empty text: the one caller only tests the result for truth.
findCanonicalSchoolName(normalizedTarget, existingSchools) ==
  LET hits   == {i \in 1..Len(existingSchools) :
                   normalizeSchoolName(existingSchools[i]) = normalizedTarget}
      spaced == {i \in hits : includesSpace(existingSchools[i])}
  IN IF spaced # {} THEN existingSchools[Min(spaced)]
     ELSE IF hits # {} THEN existingSchools[Min(hits)]
     ELSE <<>>

\* Array.prototype.some(sch => normalizeSchoolName(sch) === key)
someSchool(schools, key) == \E i \in 1..Len(schools) : normalizeSchoolName(schools[i]) = key

-----------------------------------------------------------------------------
(* Courses *)

\* The scalar text fields the Merger merges: dom.ts 1241-1261.
ScalarFields == {"courseName", "subject", "term", "prerequisite", "corequisite",
                 "enrollmentNotes", "courseDescription"}

\* A course object. hasSchools is FALSE when the object has no schools array
\* (schools is then <<>> and stands for undefined); hasGpa is FALSE when it has no
\* gpa (gpa is then 0 and stands for undefined). A gpa is counted in tenths.
MkCourse(code, name, credits, tags, grades, text, schools, hasSchools) ==
  [courseCode |-> code, courseName |-> name, credits |-> credits, tags |-> tags,
   gpa |-> 40, hasGpa |-> TRUE, subject |-> text, term |-> text,
   eligibleGrades |-> grades,
   prerequisite |-> text, corequisite |-> text, enrollmentNotes |-> text,
   courseDescription |-> text, schools |-> schools, hasSchools |-> hasSchools]

\* A validation that accepts every course.
CourseValidAlways(c) == TRUE

\* CourseSchema.parse of one course: courseCode and courseName are z.string().min(1),
\* gpa is z.number(); the other fields are present with the right type in every
\* course of the model.
CourseValid(c) == c.courseCode # <<>> /\ c.courseName # <<>> /\ c.hasGpa

\* What CourseSchema.parse returns: z.object strips the keys the schema does not
\* declare, and the schema declares no schools.
SchemaParsed(c) == [c EXCEPT !.schools = <<>>, !.hasSchools = FALSE]

-----------------------------------------------------------------------------
(* Catalog Merger: dom.ts 1119-1339 *)

\* A name of the schools directory: "courses.katyisd." + stem + ".json".
FileName(stem) == <<"courses.katyisd.">> \o stem \o <<".json">>

\* The filter of the directory listing.
isCourseFile(name) ==
  Len(name) >= 2 /\ name[1] = "courses.katyisd." /\ name[Len(name)] = ".json"

\* fileName.replace(/^courses\.katyisd\./i, "").replace(/\.json$/i, "")
fileStem(name) == SubSeq(name, 2, Len(name) - 1)

\* A parsed per-school file: name, parsed.source.school (<<>> when absent),
\* and parsed.courses (hasCourses is FALSE when it is missing or no array).
MkFile(name, school, hasCourses, courses) ==
  [name |-> name, school |-> school, hasCourses |-> hasCourses, courses |-> courses]

NoFile == MkFile(<<>>, <<>>, FALSE, <<>>)

\* let schoolName = parsed.source?.school || stem, then the canonical form found in
\* the file's own courses when the name has no blank.
resolveSchoolName(file) ==
  LET first  == IF file.school # <<>> THEN file.school ELSE fileStem(file.name)
      target == normalizeSchoolName(first)
      hits   == {i \in 1..Len(file.courses) :
                   /\ file.courses[i].hasSchools
                   /\ Len(file.courses[i].schools) > 0
                   /\ findCanonicalSchoolName(target, file.courses[i].schools) # <<>>}
  IN IF ~includesSpace(first) /\ Len(file.courses) > 0 /\ hits # {}
     THEN findCanonicalSchoolName(target, file.courses[Min(hits)].schools)
     ELSE first

\* The course's own schools list once the contributing school is seeded.
seedSchools(course, name) ==
  LET own == IF course.hasSchools THEN course.schools ELSE <<>>
  IN IF name # <<>> /\ ~someSchool(own, normalizeSchoolName(name))
     THEN Append(own, name)
     ELSE own

\* if (!existing.f && course.f) existing.f = course.f
mergeScalar(existing, incoming) ==
  IF existing = <<>> /\ incoming # <<>> THEN incoming ELSE existing

\* Array.prototype.indexOf
indexOf(arr, x) == Min({i \in 1..Len(arr) : arr[i] = x})

\* A merge that keeps whichever equivalent name came first.
mergeSchoolKeepFirst(existingSchools, sch) ==
  IF someSchool(existingSchools, normalizeSchoolName(sch))
  THEN existingSchools
  ELSE Append(existingSchools, sch)

\* One turn of the loop over course.schools.
mergeSchool(existingSchools, sch) ==
  LET hits == {i \in 1..Len(existingSchools) :
                 normalizeSchoolName(existingSchools[i]) = normalizeSchoolName(sch)}
  IN IF hits = {} THEN Append(existingSchools, sch)
     ELSE LET existingMatch == existingSchools[Min(hits)]
          IN IF includesSpace(sch) /\ ~includesSpace(existingMatch)
             THEN [existingSchools EXCEPT ![indexOf(existingSchools, existingMatch)] = sch]
             ELSE existingSchools

RECURSIVE mergeSchoolLists(_, _)
mergeSchoolLists(existingSchools, incoming) ==
  IF incoming = <<>> THEN existingSchools
  ELSE mergeSchoolLists(mergeSchool(existingSchools, Head(incoming)), Tail(incoming))

\* The branch taken when coursesMap[code] is set: tags, eligibleGrades, credits
\* and gpa of the existing entry are not assigned.
mergeCourse(existing, course) ==
  [existing EXCEPT
     !.courseName = mergeScalar(existing.courseName, course.courseName),
     !.subject = mergeScalar(existing.subject, course.subject),
     !.term = mergeScalar(existing.term, course.term),
     !.prerequisite = mergeScalar(existing.prerequisite, course.prerequisite),
     !.corequisite = mergeScalar(existing.corequisite, course.corequisite),
     !.enrollmentNotes = mergeScalar(existing.enrollmentNotes, course.enrollmentNotes),
     !.courseDescription = mergeScalar(existing.courseDescription, course.courseDescription),
     !.schools = mergeSchoolLists(existing.schools, course.schools)]

\* An own property key that is a canonical array index; Object.values lists those
\* first, in ascending numeric order, and the other keys in insertion order.
isArrayIndex(code) ==
  /\ Len(code) >= 1
  /\ \A i \in 1..Len(code) : IsDigit(code[i])
  /\ (Len(code) = 1 \/ code[1] # "0")
  /\ Len(code) <= 9   \* below 2^32 - 1; the model's codes are short

\* A lookup that finds no key: every course would be stored as new.
hasKeyNever(map, code) == FALSE

\* if (coursesMap[code])
hasKey(map, code) == \E i \in 1..Len(map) : map[i].courseCode = code

keyIndex(map, code) == Min({i \in 1..Len(map) : map[i].courseCode = code})

\* coursesMap[code] = course, for a code that is no key yet.
mapInsert(map, course) ==
  IF isArrayIndex(course.courseCode)
  THEN LET before == {i \in 1..Len(map) :
                        /\ isArrayIndex(map[i].courseCode)
                        /\ ToNat(map[i].courseCode) < ToNat(course.courseCode)}
           p == Cardinality(before)
       IN SubSeq(map, 1, p) \o <<course>> \o SubSeq(map, p + 1, Len(map))
  ELSE Append(map, course)

\* The course as it is after the schools array is normalised and seeded.
seeded(course, name) ==
  [course EXCEPT !.schools = seedSchools(course, name), !.hasSchools = TRUE]

\* The body of the loop over the courses of one file.
ingestCourse(map, course, name) ==
  IF course.courseCode = <<>> THEN map
  ELSE IF hasKey(map, course.courseCode)
  THEN LET k == keyIndex(map, course.courseCode)
       IN [map EXCEPT ![k] = mergeCourse(map[k], seeded(course, name))]
  ELSE mapInsert(map, seeded(course, name))

RECURSIVE ingestCourses(_, _, _)
ingestCourses(map, courses, name) ==
  IF courses = <<>> THEN map
  ELSE ingestCourses(ingestCourse(map, Head(courses), name), Tail(courses), name)

\* One whole turn of the loop over jsonFiles.
ingestFile(map, file) ==
  IF ~file.hasCourses THEN map
  ELSE ingestCourses(map, file.courses, resolveSchoolName(file))

RECURSIVE mergeFiles(_, _)
mergeFiles(map, files) ==
  IF files = <<>> THEN map ELSE mergeFiles(ingestFile(map, Head(files)), Tail(files))

-----------------------------------------------------------------------------
(* The inputs the Merger is run on *)

SL  == <<"S", "L">>         \* a compact school name, as a file name gives it
S_L == <<"S", " ", "L">>    \* the same school, spaced
M   == <<"M">>              \* another school

K1 == <<"7">>               \* a course code that is an array index
K2 == <<"0", "1", "A">>     \* a course code that is none

Art == <<"A", "r", "t">>
AP  == <<"A", "P">>
DC  == <<"D", "C">>

Codes == {K1, K2}

\* Courses that differ in their schools array: course K1 without one, with the
\* compact name, with the spaced name, and with both; course K2 at another school.
SchoolLists ==
  {[has |-> FALSE, schools |-> <<>>], [has |-> TRUE, schools |-> <<SL>>],
   [has |-> TRUE, schools |-> <<S_L>>], [has |-> TRUE, schools |-> <<SL, S_L>>]}

SchoolAxisCourses ==
  {MkCourse(K1, Art, 1, <<>>, <<>>, NA, l.schools, l.has) : l \in SchoolLists}
  \cup {MkCourse(K2, Art, 1, <<>>, <<>>, NA, <<M>>, TRUE)}

\* Courses that differ in their text fields, tags and grades, and a course
\* without a code.
Texts == {<<>>, NA, <<"x">>, <<"y">>}

TagLists == {<<>>, <<AP>>}

FieldAxisCourses ==
  {MkCourse(k, t, 1, tg, tg, t, <<>>, TRUE) : k \in Codes, t \in Texts, tg \in TagLists}
  \cup {MkCourse(<<>>, Art, 1, <<>>, <<>>, NA, <<>>, FALSE)}

\* The files a directory entry of that name may hold.
FilesNamed(name, schools, courses) ==
  {MkFile(name, s, TRUE, cs) : s \in schools, cs \in SeqsUpTo(MaxCourses, courses)}
  \cup {MkFile(name, <<>>, FALSE, <<>>)}

\* Every order of every subset of the names.
Listings(names) ==
  {l \in SeqsUpTo(Cardinality(names), names) :
     \A i, j \in 1..Len(l) : i # j => l[i] # l[j]}

DirNames == {FileName(SL), FileName(M), <<"README">>}

\* A fixed directory of four files; two of them disagree on the text of course K1.
FixtureNames == {FileName(SL), FileName(M), FileName(<<"s", "l">>), FileName(<<"L">>)}

FixtureFile(name) ==
  IF name = FileName(SL)
  THEN MkFile(name, <<>>, TRUE, <<MkCourse(K1, Art, 1, <<AP>>, <<>>, <<"x">>, <<>>, FALSE)>>)
  ELSE IF name = FileName(M)
  THEN MkFile(name, <<>>, TRUE, <<MkCourse(K1, Art, 1, <<>>, <<>>, <<"y">>, <<>>, FALSE)>>)
  ELSE IF name = FileName(<<"s", "l">>)
  THEN MkFile(name, S_L, TRUE, <<MkCourse(K2, Art, 1, <<>>, <<>>, NA, <<SL>>, TRUE)>>)
  ELSE MkFile(name, <<>>, FALSE, <<>>)

FixtureListings ==
  {l \in [1..Cardinality(FixtureNames) -> FixtureNames] :
     \A i, j \in 1..Len(l) : i # j => l[i] # l[j]}

-----------------------------------------------------------------------------
(* Merger actions *)

NoContrib == [k \in Codes |-> [names |-> {}, clean |-> TRUE]]

NoSnapshot == [taken |-> FALSE, map |-> <<>>]

NoOutput == [written |-> FALSE, courses |-> <<>>]

\* No two entries of the list are equal under normalizeSchoolName.
noNormalizedDuplicates(schools) ==
  \A i, j \in 1..Len(schools) :
    i # j => normalizeSchoolName(schools[i]) # normalizeSchoolName(schools[j])

\* Two parsed files carry the same course collection for the same school.
sameCollection(f, g) ==
  /\ f.hasCourses /\ g.hasCourses
  /\ f.courses = g.courses
  /\ resolveSchoolName(f) = resolveSchoolName(g)

MergerIdle ==
  /\ pc = "idle" /\ jsonFiles = <<>> /\ fi = 0 /\ curFile = NoFile /\ ci = 1
  /\ schoolName = <<>> /\ coursesMap = <<>> /\ outFile = NoOutput
  /\ contrib = NoContrib /\ snapshot = NoSnapshot

\* fs.readdir and the filter: dom.ts 1125-1151.
ReadDir(listings) ==
  /\ pc = "readdir"
  /\ \/ \E entries \in listings :
          LET files == SelectSeq(entries, isCourseFile)
          IN /\ jsonFiles' = files
             /\ pc' = IF files = <<>> THEN "failed" ELSE "loop"
     \/ /\ jsonFiles' = <<>>          \* readdir throws
        /\ pc' = "failed"
  /\ UNCHANGED <<fi, curFile, ci, schoolName, coursesMap, outFile, contrib, snapshot>>
  /\ UNCHANGED <<collapserVars, gpaVars, preVars, call, scrapeVars>>

\* The head of one turn of the loop over jsonFiles: dom.ts 1159-1208.
OpenFile(file) ==
  /\ pc = "loop"
  /\ ci > Len(curFile.courses)
  /\ fi < Len(jsonFiles)
  /\ file.name = jsonFiles[fi + 1]
  /\ fi' = fi + 1
  /\ ci' = 1
  /\ IF file.hasCourses
     THEN /\ curFile' = file
          /\ schoolName' = resolveSchoolName(file)
     ELSE /\ curFile' = [file EXCEPT !.courses = <<>>]
          /\ schoolName' = <<>>
  /\ snapshot' = IF fi >= 1 /\ sameCollection(file, curFile)
                 THEN [taken |-> TRUE, map |-> coursesMap]
                 ELSE NoSnapshot
  /\ UNCHANGED <<pc, jsonFiles, coursesMap, outFile, contrib>>
  /\ UNCHANGED <<collapserVars, gpaVars, preVars, call, scrapeVars>>

\* One turn of the loop over the courses of the file: dom.ts 1210-1289.
IngestCourse ==
  /\ pc = "loop"
  /\ ci <= Len(curFile.courses)
  /\ LET course == curFile.courses[ci]
         code   == course.courseCode
         own    == seedSchools(course, schoolName)
     IN /\ coursesMap' = ingestCourse(coursesMap, course, schoolName)
        /\ contrib' =
             IF code \in Codes
             THEN [contrib EXCEPT ![code] =
                     [names |-> @.names \cup {own[i] : i \in 1..Len(own)},
                      clean |-> @.clean /\ noNormalizedDuplicates(own)]]
             ELSE contrib
  /\ ci' = ci + 1
  /\ UNCHANGED <<pc, jsonFiles, fi, curFile, schoolName, outFile, snapshot>>
  /\ UNCHANGED <<collapserVars, gpaVars, preVars, call, scrapeVars>>

\* After the loop: Object.values, validation and the write: dom.ts 1292-1338.
MergeFinish ==
  /\ pc = "loop"
  /\ fi = Len(jsonFiles)
  /\ ci > Len(curFile.courses)
  /\ IF coursesMap = <<>> \/ \E i \in 1..Len(coursesMap) : ~CourseValid(coursesMap[i])
     THEN /\ pc' = "failed"
          /\ outFile' = outFile
     ELSE /\ pc' = "done"
          /\ outFile' = [written |-> TRUE,
                         courses |-> [i \in 1..Len(coursesMap) |-> SchemaParsed(coursesMap[i])]]
  /\ UNCHANGED <<jsonFiles, fi, curFile, ci, schoolName, coursesMap, contrib, snapshot>>
  /\ UNCHANGED <<collapserVars, gpaVars, preVars, call, scrapeVars>>

CollapserIdle ==
  /\ cpc = "idle" /\ catalog = <<>> /\ gi = 1 /\ groups = <<>> /\ bi = 1
  /\ newCourses = <<>> /\ origin = <<>> /\ catalogFile = <<>> /\ fileOrigin = <<>>

\* The GPA pass is not running.
GpaIdle == gpaPc = "idle" /\ gpaCatalog = <<>> /\ gpaI = 1

\* The Prerequisite Resolver is not running.
PreIdle ==
  /\ prePc = "idle" /\ preCatalog = <<>> /\ preI = 1 /\ unmatchedPrerequisites = <<>>
  /\ preInput = <<>>

\* No function is called by itself.
NoCall == [fn |-> "none", args |-> <<>>, returned |-> FALSE, result |-> <<>>]

\* The runner is not running.
NoRunner ==
  [pc |-> "idle", step |-> 0, concurrency |-> 0, shouldAbort |-> FALSE, tasks |-> <<>>,
   ends |-> <<>>, started |-> <<>>, stageEnds |-> <<>>, exited |-> FALSE, exitCode |-> 0]

\* retryOperation is not running.
NoRetry ==
  [pc |-> "idle", maxRetries |-> 0, baseDelay |-> 0, attempt |-> 0, calls |-> 0,
   lastError |-> 0, delays |-> <<>>, result |-> 0]

\* scrollToLoadCourses is not running.
NoScroll ==
  [pc |-> "idle", limit |-> 0, maxIterations |-> 0, iteration |-> 0,
   previousCount |-> 0, stableCount |-> 0, grew |-> FALSE, left |-> "none"]

\* The per-school scraper is not running.
NoScraper ==
  [pc |-> "idle", file |-> [exists |-> FALSE, courses |-> <<>>],
   before |-> [exists |-> FALSE, courses |-> <<>>], existingCoursesMap |-> <<>>,
   existingCodes |-> {}, coursesToProcess |-> <<>>, i |-> 0, newCoursesMap |-> <<>>,
   coursesSavedCount |-> 0, finalSave |-> FALSE]

ScrapeIdle ==
  /\ runner = NoRunner /\ retry = NoRetry /\ scroll = NoScroll /\ scraper = NoScraper

MergerStart ==
  /\ pc = "readdir" /\ jsonFiles = <<>> /\ fi = 0 /\ curFile = NoFile /\ ci = 1
  /\ schoolName = <<>> /\ coursesMap = <<>> /\ outFile = NoOutput
  /\ contrib = NoContrib /\ snapshot = NoSnapshot

MergeInit == MergerStart /\ CollapserIdle /\ GpaIdle /\ ScrapeIdle /\ PreIdle /\ call = NoCall

\* The Merger over files that differ in their schools arrays.
ReadSchoolsDir == ReadDir(Listings(DirNames))

OpenSchoolsFile ==
  \E file \in UNION {FilesNamed(n, {<<>>, S_L}, SchoolAxisCourses) : n \in DirNames} :
    OpenFile(file)

MergeNext == ReadSchoolsDir \/ OpenSchoolsFile \/ IngestCourse \/ MergeFinish

SpecMerge == MergeInit /\ [][MergeNext]_vars

\* The Merger over files that differ in their text fields and tags.
OpenFieldsFile ==
  \E file \in UNION {FilesNamed(n, {<<>>}, FieldAxisCourses) : n \in DirNames} :
    OpenFile(file)

MergeFieldsNext == ReadSchoolsDir \/ OpenFieldsFile \/ IngestCourse \/ MergeFinish

SpecMergeFields == MergeInit /\ [][MergeFieldsNext]_vars

\* The Merger over the fixed directory, listed in any order.
ReadFixtureDir == ReadDir(FixtureListings)

OpenFixtureFile == \E name \in FixtureNames : OpenFile(FixtureFile(name))

MergeDirNext == ReadFixtureDir \/ OpenFixtureFile \/ IngestCourse \/ MergeFinish

SpecMergeDir == MergeInit /\ [][MergeDirNext]_vars

-----------------------------------------------------------------------------
(* Claims about the Merger *)

distinctCodes(courses) ==
  \A i, j \in 1..Len(courses) : i # j => courses[i].courseCode # courses[j].courseCode

\* C1: whatever per-source collections have been ingested so far (codes repeating
\* within one file and across files), the courses of the accumulator, and of the
\* catalog written from it, have pairwise distinct courseCode values.
C1_CourseCodesDistinct == distinctCodes(coursesMap) /\ distinctCodes(outFile.courses)

\* A second file has been ingested whose two courses both carry code K1, after a
\* first file with the same collection: the accumulator holds K1 once.
C1_Witness ==
  /\ fi = 2 /\ ci = 3 /\ snapshot.taken
  /\ curFile.courses[1].courseCode = K1 /\ curFile.courses[2].courseCode = K1
  /\ Len(coursesMap) = 1 /\ coursesMap[1].courseCode = K1

\* The next step ingests a course whose code is already a key of the accumulator.
mergeStep ==
  /\ pc = "loop"
  /\ ci <= Len(curFile.courses)
  /\ hasKey(coursesMap, curFile.courses[ci].courseCode)

\* C2: when a course is ingested whose code is already in the accumulator, each
\* scalar text field keeps the existing value if that is non-empty and not "n/a",
\* and otherwise takes the incoming value.
C2_ExistingWinsElseIncoming ==
  [][mergeStep =>
       LET course == curFile.courses[ci]
           k      == keyIndex(coursesMap, course.courseCode)
       IN \A f \in ScalarFields :
            coursesMap'[k][f] =
              IF coursesMap[k][f] # <<>> /\ coursesMap[k][f] # NA
              THEN coursesMap[k][f]
              ELSE course[f]]_vars

RECURSIVE appendMissing(_, _)
appendMissing(list, more) ==
  IF more = <<>> THEN list
  ELSE appendMissing(IF \E i \in 1..Len(list) : list[i] = Head(more)
                     THEN list ELSE Append(list, Head(more)),
                     Tail(more))

\* C3: when a course is ingested whose code is already in the accumulator, tags
\* and eligibleGrades become the existing list followed by the incoming elements
\* it lacks.
C3_TagsAndGradesUnion ==
  [][mergeStep =>
       LET course == curFile.courses[ci]
           k      == keyIndex(coursesMap, course.courseCode)
       IN /\ coursesMap'[k].tags = appendMissing(coursesMap[k].tags, course.tags)
          /\ coursesMap'[k].eligibleGrades =
               appendMissing(coursesMap[k].eligibleGrades, course.eligibleGrades)]_vars

\* C4: no course of the accumulator has two schools entries with the same
\* normalizeSchoolName key, whatever lists the incoming courses carried.
C4_NoNormalizedDuplicateSchools ==
  \A i \in 1..Len(coursesMap) : noNormalizedDuplicates(coursesMap[i].schools)

sameData(a, b) ==
  /\ Len(a) = Len(b)
  /\ \A i \in 1..Len(a) :
       /\ a[i].schools = b[i].schools
       /\ \A f \in ScalarFields : a[i][f] = b[i][f]

\* C6: once a file has been ingested whose collection is the one the previous file
\* carried, the schools list and the scalar fields of every course are what they
\* were before that second ingestion.
C6_ReingestIsNoOp ==
  (snapshot.taken /\ ci > Len(curFile.courses)) => sameData(coursesMap, snapshot.map)

\* C7: the catalog written does not depend on the order in which the directory
\* listing returned the file names.
C7_ListingOrderIrrelevant ==
  pc = "done" =>
    \A l \in FixtureListings :
      LET m == mergeFiles(<<>>, [i \in 1..Len(l) |-> FixtureFile(l[i])])
      IN outFile.courses = [i \in 1..Len(m) |-> SchemaParsed(m[i])]

-----------------------------------------------------------------------------
(* Semester-Pair Collapser: scrape.ts 631-909 *)

Max(S) == CHOOSE x \in S : \A y \in S : x >= y

\* String.prototype.trim
trim(s) ==
  LET solid == {i \in 1..Len(s) : ~IsSpace(s[i])}
  IN IF solid = {} THEN <<>> ELSE SubSeq(s, Min(solid), Max(solid))

\* [0-9A-Za-z]
IsAlnum(c) == IsDigit(c) \/ Lower(c) # c \/ Upper(c) # c

\* [AB] under the i flag.
IsABMarker(c) == c \in {"A", "B", "a", "b"}

\* The text matches (\s*\(.*\))?$ : nothing, or blanks and a parenthetical that
\* ends the text.
isTail(rest) ==
  \/ rest = <<>>
  \/ LET solid == {i \in 1..Len(rest) : ~IsSpace(rest[i])}
     IN /\ solid # {}
        /\ rest[Min(solid)] = "("
        /\ rest[Len(rest)] = ")"
        /\ Min(solid) < Len(rest)

\* .replace(/\s+[AB](\s*\(.*\))?$/i, '$1'): the leftmost match is cut down to its
\* parenthetical.
replaceSpacedMarker(name) ==
  LET hits == {q \in 2..Len(name) :
                 /\ IsABMarker(name[q])
                 /\ IsSpace(name[q - 1])
                 /\ isTail(SubSeq(name, q + 1, Len(name)))}
  IN IF hits = {} THEN name
     ELSE LET q == Min(hits)
              p == Min({i \in 1..(q - 1) : \A j \in i..(q - 1) : IsSpace(name[j])})
          IN SubSeq(name, 1, p - 1) \o SubSeq(name, q + 1, Len(name))

\* .replace(/([0-9A-Za-z])[AB](\s*\(.*\))?$/i, '$1$2')
replaceAbuttingMarker(name) ==
  LET hits == {q \in 2..Len(name) :
                 /\ IsABMarker(name[q])
                 /\ IsAlnum(name[q - 1])
                 /\ isTail(SubSeq(name, q + 1, Len(name)))}
  IN IF hits = {} THEN name
     ELSE LET q == Min(hits)
          IN SubSeq(name, 1, q - 1) \o SubSeq(name, q + 1, Len(name))

stripABSuffix(courseName) == trim(replaceAbuttingMarker(replaceSpacedMarker(courseName)))

isEmpty(value) == value = <<>> \/ trim(value) = <<>> \/ toLowerCase(value) = NA

coalesce(value1, value2) == IF isEmpty(value1) THEN value2 ELSE value1

RECURSIVE mergeArrays(_, _)
mergeArrays(arr1, arr2) ==
  IF arr2 = <<>> THEN arr1
  ELSE mergeArrays(IF \E i \in 1..Len(arr1) : arr1[i] = Head(arr2)
                   THEN arr1 ELSE Append(arr1, Head(arr2)),
                   Tail(arr2))

RECURSIVE mergeSchools(_, _)
mergeSchools(schools1, schools2) ==
  IF schools2 = <<>> THEN schools1
  ELSE mergeSchools(IF someSchool(schools1, normalizeSchoolName(Head(schools2)))
                    THEN schools1 ELSE Append(schools1, Head(schools2)),
                    Tail(schools2))

\* The literal "Semester 1-Semester 2", kept as one token.
FullYearTerm == <<"Semester 1-Semester 2">>

\* consolidatePair throws when it spreads or iterates a schools that is undefined.
consolidateThrows(courseA, courseB) == ~courseA.hasSchools \/ ~courseB.hasSchools

consolidatePair(courseA, courseB, baseCode) ==
  [courseCode |-> baseCode,
   courseName |-> stripABSuffix(courseA.courseName),
   credits |-> courseA.credits + courseB.credits,
   term |-> FullYearTerm,
   gpa |-> courseA.gpa,
   hasGpa |-> courseA.hasGpa,
   subject |-> coalesce(courseA.subject, courseB.subject),
   prerequisite |-> coalesce(courseA.prerequisite, courseB.prerequisite),
   corequisite |-> coalesce(courseA.corequisite, courseB.corequisite),
   enrollmentNotes |-> coalesce(courseA.enrollmentNotes, courseB.enrollmentNotes),
   courseDescription |-> coalesce(courseA.courseDescription, courseB.courseDescription),
   tags |-> mergeArrays(courseA.tags, courseB.tags),
   schools |-> mergeSchools(courseA.schools, courseB.schools),
   eligibleGrades |-> mergeArrays(courseA.eligibleGrades, courseB.eligibleGrades),
   hasSchools |-> TRUE]

\* code.match(/^(.+)([AB])$/)
hasABSuffix(code) == Len(code) >= 2 /\ code[Len(code)] \in {"A", "B"}

baseCodeOf(code) == SubSeq(code, 1, Len(code) - 1)

\* `__no_suffix_${code}`; the prefix is one token, which no code of the model holds.
fakeBaseOf(code) == <<"__no_suffix_">> \o code

\* baseCode.startsWith('__no_suffix_')
isFakeBase(key) == Len(key) >= 1 /\ key[1] = "__no_suffix_"

\* A value of the groups Map; A and B are indices into catalog.courses.
MkGroup(key, other) ==
  [key |-> key, hasA |-> FALSE, A |-> 0, hasB |-> FALSE, B |-> 0, other |-> other]

groupIndex(grps, key) == Min({k \in 1..Len(grps) : grps[k].key = key})

hasGroup(grps, key) == \E k \in 1..Len(grps) : grps[k].key = key

\* Map.prototype.set: a key that is present keeps its place.
groupsSet(grps, group) ==
  IF hasGroup(grps, group.key)
  THEN [grps EXCEPT ![groupIndex(grps, group.key)] = group]
  ELSE Append(grps, group)

\* A placement in which a later course of the same suffix takes the slot.
placeInGroupLastWins(group, suffix, idx) ==
  IF suffix = "A"
  THEN [group EXCEPT !.hasA = TRUE, !.A = idx]
  ELSE [group EXCEPT !.hasB = TRUE, !.B = idx]

\* The A or B slot of the group takes the course if it is free; a further course
\* of the same suffix goes to other.
placeInGroup(group, suffix, idx) ==
  IF suffix = "A"
  THEN IF group.hasA THEN [group EXCEPT !.other = Append(@, idx)]
       ELSE [group EXCEPT !.hasA = TRUE, !.A = idx]
  ELSE IF group.hasB THEN [group EXCEPT !.other = Append(@, idx)]
       ELSE [group EXCEPT !.hasB = TRUE, !.B = idx]

\* One turn of the grouping loop, for catalog.courses[idx] of that code.
groupCourse(grps, idx, code) ==
  IF hasABSuffix(code)
  THEN LET baseCode == baseCodeOf(code)
           present  == IF hasGroup(grps, baseCode) THEN grps
                       ELSE Append(grps, MkGroup(baseCode, <<>>))
           k        == groupIndex(present, baseCode)
       IN [present EXCEPT ![k] = placeInGroup(@, code[Len(code)], idx)]
  ELSE groupsSet(grps, MkGroup(fakeBaseOf(code), <<idx>>))

\* { ...course, courseName: stripABSuffix(course.courseName) }
cleaned(course) == [course EXCEPT !.courseName = stripABSuffix(course.courseName)]

\* The entries one group adds to newCourses, each with the input indices it is
\* made of.
builtFrom(courses, group) ==
  LET others == [j \in 1..Len(group.other) |->
                   [course |-> cleaned(courses[group.other[j]]), from |-> {group.other[j]}]]
  IN IF isFakeBase(group.key) THEN others
     ELSE IF group.hasA /\ group.hasB
     THEN <<[course |-> consolidatePair(courses[group.A], courses[group.B], group.key),
             from |-> {group.A, group.B}]>> \o others
     ELSE (IF group.hasA
           THEN <<[course |-> cleaned(courses[group.A]), from |-> {group.A}]>> ELSE <<>>)
          \o (IF group.hasB
              THEN <<[course |-> cleaned(courses[group.B]), from |-> {group.B}]>> ELSE <<>>)
          \o others

buildThrows(courses, group) ==
  /\ ~isFakeBase(group.key)
  /\ group.hasA /\ group.hasB
  /\ consolidateThrows(courses[group.A], courses[group.B])

-----------------------------------------------------------------------------
(* The catalogs the Collapser is run on *)

XA == <<"0", "1", "A">>
XB == <<"0", "1", "B">>
X  == <<"0", "1">>

Art1  == <<"A", "r", "t", " ", "1">>
Art1A == Art1 \o <<" ", "A">>
Art1B == Art1 \o <<" ", "B">>

nameFor(code) == IF code = XA THEN Art1A ELSE IF code = XB THEN Art1B ELSE Art1

\* Credits are counted in half credits. The courses come with a schools array, or
\* without one, as the catalog the Merger writes has them.
CollapseCourses ==
  {MkCourse(code, nameFor(code), cr, <<>>, <<>>, NA, l.schools, l.has) :
     code \in {XA, XB, X}, cr \in {1, 2},
     l \in {[has |-> FALSE, schools |-> <<>>], [has |-> TRUE, schools |-> <<S_L>>]}}
  \cup {MkCourse(X, <<>>, 1, <<>>, <<>>, NA, <<>>, FALSE)}

-----------------------------------------------------------------------------
(* Collapser actions *)

\* readFile, JSON.parse and the validation of the input: scrape.ts 733-748.
CollapseRead ==
  /\ cpc = "read"
  /\ catalog' = catalogFile
  /\ cpc' = IF \A i \in 1..Len(catalogFile) : CourseValid(catalogFile[i])
            THEN "group" ELSE "failed"
  /\ UNCHANGED <<gi, groups, bi, newCourses, origin, catalogFile, fileOrigin>>
  /\ UNCHANGED <<mergerVars, gpaVars, preVars, call, scrapeVars>>

\* One turn of the grouping loop: scrape.ts 754-790.
GroupCourse ==
  /\ cpc = "group"
  /\ gi <= Len(catalog)
  /\ groups' = groupCourse(groups, gi, catalog[gi].courseCode)
  /\ gi' = gi + 1
  /\ UNCHANGED <<cpc, catalog, bi, newCourses, origin, catalogFile, fileOrigin>>
  /\ UNCHANGED <<mergerVars, gpaVars, preVars, call, scrapeVars>>

\* One turn of the loop over groups.entries(): scrape.ts 801-850. An exception
\* of consolidatePair ends main in its catch block.
BuildGroup ==
  /\ cpc = "group"
  /\ gi > Len(catalog)
  /\ bi <= Len(groups)
  /\ IF buildThrows(catalog, groups[bi])
     THEN /\ cpc' = "failed"
          /\ UNCHANGED <<bi, newCourses, origin>>
     ELSE LET built == builtFrom(catalog, groups[bi])
          IN /\ newCourses' = newCourses \o [j \in 1..Len(built) |-> built[j].course]
             /\ origin' = origin \o [j \in 1..Len(built) |-> built[j].from]
             /\ bi' = bi + 1
             /\ cpc' = cpc
  /\ UNCHANGED <<catalog, gi, groups, catalogFile, fileOrigin>>
  /\ UNCHANGED <<mergerVars, gpaVars, preVars, call, scrapeVars>>

\* Validation of the new list and the write: scrape.ts 860-876.
CollapseWrite ==
  /\ cpc = "group"
  /\ gi > Len(catalog)
  /\ bi > Len(groups)
  /\ IF \A j \in 1..Len(newCourses) : CourseValid(newCourses[j])
     THEN /\ catalogFile' = [j \in 1..Len(newCourses) |-> SchemaParsed(newCourses[j])]
          /\ fileOrigin' = origin
          /\ cpc' = "done"
     ELSE /\ cpc' = "failed"
          /\ UNCHANGED <<catalogFile, fileOrigin>>
  /\ UNCHANGED <<catalog, gi, groups, bi, newCourses, origin>>
  /\ UNCHANGED <<mergerVars, gpaVars, preVars, call, scrapeVars>>

CollapseInit ==
  /\ MergerIdle /\ GpaIdle /\ ScrapeIdle /\ PreIdle /\ call = NoCall
  /\ cpc = "read" /\ catalog = <<>> /\ gi = 1 /\ groups = <<>> /\ bi = 1
  /\ newCourses = <<>> /\ origin = <<>>
  /\ catalogFile \in SeqsUpTo(MaxCatalog, CollapseCourses)
  /\ fileOrigin = [i \in 1..Len(catalogFile) |-> {i}]

CollapseNext == CollapseRead \/ GroupCourse \/ BuildGroup \/ CollapseWrite

SpecCollapse == CollapseInit /\ [][CollapseNext]_vars

-----------------------------------------------------------------------------
(* Claims about the Collapser *)

terminated == cpc \in {"done", "failed"}

inputValid == \A i \in 1..Len(catalog) : CourseValid(catalog[i])

inputWith(code) == {i \in 1..Len(catalog) : catalog[i].courseCode = code}

\* The base codes for which the input holds both an A and a B entry.
pairBases ==
  {baseCodeOf(catalog[i].courseCode) :
     i \in {i \in 1..Len(catalog) :
              /\ hasABSuffix(catalog[i].courseCode)
              /\ inputWith(baseCodeOf(catalog[i].courseCode) \o <<"A">>) # {}
              /\ inputWith(baseCodeOf(catalog[i].courseCode) \o <<"B">>) # {}}}

firstA(base) == Min(inputWith(base \o <<"A">>))
firstB(base) == Min(inputWith(base \o <<"B">>))

pairMembers == UNION {{firstA(b), firstB(b)} : b \in pairBases}

\* The entries of the catalog file made of exactly these input entries.
madeOf(from) == {j \in 1..Len(catalogFile) : fileOrigin[j] = from}

\* C8: once the Collapser has ended on a valid input catalog, for every base code
\* X with both X+"A" and X+"B" in the input, the catalog holds exactly one entry
\* consolidated from the two, with courseCode X, the summed credits and the term
\* "Semester 1-Semester 2", and holds neither of the two original entries.
C8_PairConsolidated ==
  (terminated /\ inputValid) =>
    \A b \in pairBases :
      /\ Cardinality(madeOf({firstA(b), firstB(b)})) = 1
      /\ \A j \in madeOf({firstA(b), firstB(b)}) :
           /\ catalogFile[j].courseCode = b
           /\ catalogFile[j].credits = catalog[firstA(b)].credits + catalog[firstB(b)].credits
           /\ catalogFile[j].term = FullYearTerm
      /\ madeOf({firstA(b)}) = {}
      /\ madeOf({firstB(b)}) = {}

\* C9: a catalog of n entries is written back with n - k entries, k the number of
\* base codes with both an A and a B entry, and every input entry outside such a
\* pair is in the output exactly once.
C9_OutputCardinality ==
  cpc = "done" =>
    /\ Len(catalogFile) = Len(catalog) - Cardinality(pairBases)
    /\ \A i \in (1..Len(catalog)) \ pairMembers : Cardinality(madeOf({i})) = 1

\* The input entries that repeat the courseCode (base code and suffix) of an
\* earlier A or B entry.
extraEntries ==
  {i \in 1..Len(catalog) :
     /\ hasABSuffix(catalog[i].courseCode)
     /\ \E h \in 1..(i - 1) : catalog[h].courseCode = catalog[i].courseCode}

\* C10: once the Collapser has ended, every input entry that repeats the base code
\* and suffix of an earlier entry is in the catalog as one entry of its own, with
\* its courseCode, credits and term, and is part of no consolidated entry.
C10_ExtraEntriesKept ==
  terminated =>
    \A i \in extraEntries :
      /\ Cardinality(madeOf({i})) = 1
      /\ \A j \in 1..Len(catalogFile) :
           i \in fileOrigin[j] =>
             /\ fileOrigin[j] = {i}
             /\ catalogFile[j].courseCode = catalog[i].courseCode
             /\ catalogFile[j].credits = catalog[i].credits
             /\ catalogFile[j].term = catalog[i].term

\* The Collapser has written the catalog for an input of an A, a B and a second A
\* of the same base code: two entries, the pair and the second A.
C10_Witness ==
  /\ cpc = "done"
  /\ Len(catalog) = 3
  /\ catalog[1].courseCode = XA /\ catalog[2].courseCode = XB /\ catalog[3].courseCode = XA
  /\ Len(catalogFile) = 2
  /\ fileOrigin = <<{1, 2}, {3}>>

\* The code of the other semester of an A or B code.
partnerCode(code) ==
  baseCodeOf(code) \o (IF code[Len(code)] = "A" THEN <<"B">> ELSE <<"A">>)

\* The input entries with an A or B code whose other semester is not in the input.
partialEntries ==
  {i \in 1..Len(catalog) :
     /\ hasABSuffix(catalog[i].courseCode)
     /\ inputWith(partnerCode(catalog[i].courseCode)) = {}}

\* C11: once the Collapser has ended, every input entry X+"A" (or X+"B") whose
\* other semester is not in the input is in the catalog as one entry of its own
\* that equals the input entry in every field but courseName, and whose courseName
\* is the input's or the input's with the A/B suffix stripped.
C11_PartialPairKept ==
  terminated =>
    \A i \in partialEntries :
      /\ Cardinality(madeOf({i})) = 1
      /\ \A j \in madeOf({i}) :
           /\ [catalogFile[j] EXCEPT !.courseName = <<>>]
                = [catalog[i] EXCEPT !.courseName = <<>>]
           /\ catalogFile[j].courseName
                \in {catalog[i].courseName, stripABSuffix(catalog[i].courseName)}

-----------------------------------------------------------------------------
(* stripABSuffix called by itself *)

\* The characters of the course names stripABSuffix is called on.
StripChars == {"a", "A", "B", "1", " ", "(", ")"}

\* Course names as createCourse leaves them: not empty, trimmed.
StripNames == {n \in SeqsUpTo(MaxName, StripChars) : n # <<>> /\ trim(n) = n}

StripInit ==
  /\ MergerIdle /\ CollapserIdle /\ GpaIdle /\ ScrapeIdle /\ PreIdle
  /\ call \in {[fn |-> "stripABSuffix", args |-> <<n>>, returned |-> FALSE, result |-> <<>>] :
                 n \in StripNames}

StripCall ==
  /\ call.fn = "stripABSuffix"
  /\ ~call.returned
  /\ call' = [call EXCEPT !.returned = TRUE, !.result = stripABSuffix(call.args[1])]
  /\ UNCHANGED <<mergerVars, collapserVars, gpaVars, preVars, scrapeVars>>

SpecStrip == StripInit /\ [][StripCall]_vars

\* The places of a name where a semester marker A or B stands after whitespace,
\* with nothing or only a closing parenthetical after it.
spacedMarkers(name) ==
  {q \in 2..Len(name) :
     /\ name[q] \in {"A", "B"}
     /\ IsSpace(name[q - 1])
     /\ isTail(SubSeq(name, q + 1, Len(name)))}

\* The places where the marker directly follows an alphanumeric.
abuttingMarkers(name) ==
  {q \in 2..Len(name) :
     /\ name[q] \in {"A", "B"}
     /\ IsAlnum(name[q - 1])
     /\ isTail(SubSeq(name, q + 1, Len(name)))}

\* The name without the marker at q and without the whitespace before the marker.
withoutSpacedMarker(name, q) ==
  LET p == Min({i \in 1..(q - 1) : \A j \in i..(q - 1) : IsSpace(name[j])})
  IN SubSeq(name, 1, p - 1) \o SubSeq(name, q + 1, Len(name))

\* The name without the one letter at q.
withoutLetter(name, q) == SubSeq(name, 1, q - 1) \o SubSeq(name, q + 1, Len(name))

\* C12: stripABSuffix removes one trailing semester marker and nothing else: of a
\* name that ends, before an optional closing parenthetical, in whitespace and A
\* or B, it returns the name without that whitespace and letter; of a name where
\* the A or B instead follows an alphanumeric, the name without that one letter;
\* of any other name, the name itself. The parenthetical stays in each case.
C12_OneMarkerStripped ==
  (call.fn = "stripABSuffix" /\ call.returned) =>
    LET name == call.args[1]
    IN IF spacedMarkers(name) # {}
       THEN \E q \in spacedMarkers(name) : call.result = withoutSpacedMarker(name, q)
       ELSE IF abuttingMarkers(name) # {}
       THEN \E q \in abuttingMarkers(name) : call.result = withoutLetter(name, q)
       ELSE call.result = name

-----------------------------------------------------------------------------
(* mergeSchools called by itself, as consolidatePair calls it with the schools
   arrays of the A and the B entry *)

SchoolArrays == SeqsUpTo(MaxSchools, {SL, S_L, M})

MergeSchoolsInit ==
  /\ MergerIdle /\ CollapserIdle /\ GpaIdle /\ ScrapeIdle /\ PreIdle
  /\ call \in {[fn |-> "mergeSchools", args |-> <<schools1, schools2>>,
                returned |-> FALSE, result |-> <<>>] :
                 schools1 \in SchoolArrays, schools2 \in SchoolArrays}

MergeSchoolsCall ==
  /\ call.fn = "mergeSchools"
  /\ ~call.returned
  /\ call' = [call EXCEPT !.returned = TRUE,
                          !.result = mergeSchools(call.args[1], call.args[2])]
  /\ UNCHANGED <<mergerVars, collapserVars, gpaVars, preVars, scrapeVars>>

SpecMergeSchools == MergeSchoolsInit /\ [][MergeSchoolsCall]_vars

\* The normalized names of a list.
schoolKeys(schools) == {normalizeSchoolName(schools[i]) : i \in 1..Len(schools)}

\* C13: the schools of a consolidated entry, merged from the lists of A and B (each
\* naming a school once), are the union of the two under normalized-name
\* equivalence: the same normalized names as A and B together, no two entries
\* equivalent, and a school that A or B names in a spaced form is kept in a spaced
\* form.
C13_SchoolsUnionSpacedKept ==
  ( /\ call.fn = "mergeSchools" /\ call.returned
    /\ noNormalizedDuplicates(call.args[1]) /\ noNormalizedDuplicates(call.args[2]) )
  => LET given == call.args[1] \o call.args[2]
     IN /\ schoolKeys(call.result) = schoolKeys(given)
        /\ noNormalizedDuplicates(call.result)
        /\ \A i \in 1..Len(given) :
             includesSpace(given[i]) =>
               \A j \in 1..Len(call.result) :
                 normalizeSchoolName(call.result[j]) = normalizeSchoolName(given[i])
                   => includesSpace(call.result[j])

-----------------------------------------------------------------------------
(* calculateGPA: schema.ts 62-79. A GPA is counted in tenths: 40, 45, 50. *)

\* String.prototype.includes
includes(s, sub) == \E i \in 0..(Len(s) - Len(sub)) : SubSeq(s, i + 1, i + Len(sub)) = sub

\* Array.prototype.includes
arrayIncludes(arr, item) == \E i \in 1..Len(arr) : arr[i] = item

KAP == <<"K", "A", "P">>

DUAL_CREDIT == <<"D", "U", "A", "L", " ", "C", "R", "E", "D", "I", "T">>

\* A calculation that tests the Dual Credit rule before the AP rule.
calculateGPADualCreditFirst(courseName, tags) ==
  LET nameUpper == toUpperCase(courseName)
      tagsUpper == [i \in 1..Len(tags) |-> toUpperCase(tags[i])]
  IN IF includes(nameUpper, DUAL_CREDIT) \/ arrayIncludes(tagsUpper, DC)
     THEN 45
     ELSE IF \/ includes(nameUpper, AP) \/ includes(nameUpper, KAP)
             \/ arrayIncludes(tagsUpper, AP) \/ arrayIncludes(tagsUpper, KAP)
     THEN 50
     ELSE 40

calculateGPA(courseName, tags) ==
  LET nameUpper == toUpperCase(courseName)
      tagsUpper == [i \in 1..Len(tags) |-> toUpperCase(tags[i])]
  IN IF \/ includes(nameUpper, AP) \/ includes(nameUpper, KAP)
        \/ arrayIncludes(tagsUpper, AP) \/ arrayIncludes(tagsUpper, KAP)
     THEN 50
     ELSE IF includes(nameUpper, DUAL_CREDIT) \/ arrayIncludes(tagsUpper, DC)
     THEN 45
     ELSE 40

\* The pieces the course names of the calls are put together from.
NamePieces ==
  {<<"a">>, <<"P">>, <<"K">>, <<"D", "u", "a", "l", " ">>, <<"C", "r", "e", "d", "i", "t">>}

RECURSIVE joined(_)
joined(pieces) == IF pieces = <<>> THEN <<>> ELSE Head(pieces) \o joined(Tail(pieces))

GpaNames == {joined(ps) : ps \in SeqsUpTo(MaxPieces, NamePieces)}

\* Tags: AP and KAP in lower and mixed case, DC in mixed case, and a tag that only
\* starts with AP.
GpaTags == {<<"a", "p">>, <<"K", "a", "P">>, <<"D", "c">>, <<"A", "P", "x">>}

CalculateGPAInit ==
  /\ MergerIdle /\ CollapserIdle /\ GpaIdle /\ ScrapeIdle /\ PreIdle
  /\ call \in {[fn |-> "calculateGPA", args |-> <<courseName, tags>>,
                returned |-> FALSE, result |-> 0] :
                 courseName \in GpaNames, tags \in SeqsUpTo(MaxTags, GpaTags)}

CalculateGPACall ==
  /\ call.fn = "calculateGPA"
  /\ ~call.returned
  /\ call' = [call EXCEPT !.returned = TRUE,
                          !.result = calculateGPA(call.args[1], call.args[2])]
  /\ UNCHANGED <<mergerVars, collapserVars, gpaVars, preVars, scrapeVars>>

SpecCalculateGPA == CalculateGPAInit /\ [][CalculateGPACall]_vars

\* The two texts are equal up to the case of their letters.
sameIgnoringCase(s, t) ==
  Len(s) = Len(t) /\ \A i \in 1..Len(s) : Upper(s[i]) = Upper(t[i])

\* The text holds the word somewhere, in any case.
containsIgnoringCase(s, word) ==
  \E i \in 0..(Len(s) - Len(word)) : sameIgnoringCase(SubSeq(s, i + 1, i + Len(word)), word)

\* A tag is the word, in any case.
taggedIgnoringCase(tags, word) == \E i \in 1..Len(tags) : sameIgnoringCase(tags[i], word)

apRule(courseName, tags) ==
  \/ containsIgnoringCase(courseName, AP) \/ containsIgnoringCase(courseName, KAP)
  \/ taggedIgnoringCase(tags, AP) \/ taggedIgnoringCase(tags, KAP)

dualCreditRule(courseName, tags) ==
  containsIgnoringCase(courseName, DUAL_CREDIT) \/ taggedIgnoringCase(tags, DC)

\* C15: calculateGPA returns 5.0 whenever the name contains AP or KAP or a tag is
\* AP or KAP (letters in any case), also when the Dual Credit rule applies as well;
\* 4.5 when only the Dual Credit rule applies (name contains "DUAL CREDIT" or a
\* tag is DC); and 4.0 otherwise.
C15_GpaByRule ==
  (call.fn = "calculateGPA" /\ call.returned) =>
    LET courseName == call.args[1]
        tags == call.args[2]
    IN call.result =
         (IF apRule(courseName, tags) THEN 50
          ELSE IF dualCreditRule(courseName, tags) THEN 45
          ELSE 40)

\* calculateGPA has returned 5.0 for a course to which the AP rule applies by its
\* name and the Dual Credit rule by its name and by a tag.
C15_Witness ==
  /\ call.fn = "calculateGPA" /\ call.returned
  /\ call.args[1] = <<"a", "P", "D", "u", "a", "l", " ", "C", "r", "e", "d", "i", "t">>
  /\ call.args[2] = <<<<"D", "c">>>>
  /\ call.result = 50

-----------------------------------------------------------------------------
(* GPA pass: migrate-gpa.ts 10-88, run by the runner after the Collapser *)

\* readFile, JSON.parse and the test of the structure: migrate-gpa.ts 17-23. The
\* runner starts the pass once the Collapser has exited with code 0.
GpaRead ==
  /\ gpaPc = "idle"
  /\ cpc = "done"
  /\ gpaCatalog' = catalogFile
  /\ gpaPc' = "loop"
  /\ UNCHANGED <<gpaI, mergerVars, collapserVars, preVars, call, scrapeVars>>

\* One turn of the loop: migrate-gpa.ts 29-46. A course that has a gpa is skipped.
GpaCourse ==
  /\ gpaPc = "loop"
  /\ gpaI <= Len(gpaCatalog)
  /\ LET course == gpaCatalog[gpaI]
     IN gpaCatalog' =
          IF course.hasGpa THEN gpaCatalog
          ELSE [gpaCatalog EXCEPT ![gpaI] =
                  [course EXCEPT !.gpa = calculateGPA(course.courseName, course.tags),
                                 !.hasGpa = TRUE]]
  /\ gpaI' = gpaI + 1
  /\ UNCHANGED <<gpaPc, mergerVars, collapserVars, preVars, call, scrapeVars>>

\* Validation and the write: migrate-gpa.ts 50-61.
GpaWrite ==
  /\ gpaPc = "loop"
  /\ gpaI > Len(gpaCatalog)
  /\ IF \A j \in 1..Len(gpaCatalog) : CourseValid(gpaCatalog[j])
     THEN /\ catalogFile' = [j \in 1..Len(gpaCatalog) |-> SchemaParsed(gpaCatalog[j])]
          /\ gpaPc' = "done"
     ELSE /\ gpaPc' = "failed"
          /\ UNCHANGED catalogFile
  /\ UNCHANGED <<gpaCatalog, gpaI, cpc, catalog, gi, groups, bi, newCourses, origin,
                 fileOrigin, mergerVars, preVars, call, scrapeVars>>

\* The gpa createCourse gives a course: schema.ts 139.
withGpa(course) == [course EXCEPT !.gpa = calculateGPA(course.courseName, course.tags)]

\* The entries of the catalog the Collapser and then the GPA pass are run on: each
\* with the gpa createCourse gave it and, as consolidatePair expects, a schools
\* array; one entry without schools array and one without gpa.
PipelineCourses ==
  {withGpa(MkCourse(code, nameFor(code), 1, tags, <<>>, NA, <<S_L>>, TRUE)) :
     code \in {XA, XB, X}, tags \in TagLists}
  \cup {MkCourse(XB, Art1B, 1, <<>>, <<>>, NA, <<>>, FALSE)}
  \cup {[MkCourse(X, Art1, 1, <<>>, <<>>, NA, <<S_L>>, TRUE) EXCEPT !.hasGpa = FALSE, !.gpa = 0]}

PipelineInit ==
  /\ MergerIdle /\ GpaIdle /\ ScrapeIdle /\ PreIdle /\ call = NoCall
  /\ cpc = "read" /\ catalog = <<>> /\ gi = 1 /\ groups = <<>> /\ bi = 1
  /\ newCourses = <<>> /\ origin = <<>>
  /\ catalogFile \in SeqsUpTo(MaxCatalog, PipelineCourses)
  /\ fileOrigin = [i \in 1..Len(catalogFile) |-> {i}]

PipelineNext == CollapseNext \/ GpaRead \/ GpaCourse \/ GpaWrite

SpecPipeline == PipelineInit /\ [][PipelineNext]_vars

-----------------------------------------------------------------------------
(* Prerequisite Resolver, text normalization: scrape.ts 970-1007 *)

\* \s* at place i of s: the number of whitespace characters from i on.
spacesAt(s, i) ==
  LET stop == {j \in i..Len(s) : ~IsSpace(s[j])}
  IN IF i > Len(s) THEN 0 ELSE IF stop = {} THEN Len(s) - i + 1 ELSE Min(stop) - i

\* A literal of a regular expression with the i flag matches s at place i; the
\* literal is given in lower case.
matchesAt(s, i, word) ==
  /\ i >= 1 /\ i + Len(word) - 1 <= Len(s)
  /\ toLowerCase(SubSeq(s, i, i + Len(word) - 1)) = word

\* String.prototype.replace with a regular expression that has the g flag:
\* lens[i] is the length of the match that starts at place i, 0 when there is none.
RECURSIVE substitute(_, _, _, _)
substitute(s, lens, replacement, i) ==
  IF i > Len(s) THEN <<>>
  ELSE IF lens[i] > 0 THEN replacement \o substitute(s, lens, replacement, i + lens[i])
  ELSE <<s[i]>> \o substitute(s, lens, replacement, i + 1)

fixTypos(name) ==
  LET fixed == substitute(name,
                 [i \in 1..Len(name) |-> IF matchesAt(name, i, <<"c", "a", "c", "l", "u", "l", "u", "s">>) THEN 8 ELSE 0],
                 <<"c", "a", "l", "c", "u", "l", "u", "s">>, 1)
  IN substitute(fixed,
       [i \in 1..Len(fixed) |-> IF matchesAt(fixed, i, <<"a", "m", "i", "n", "a", "t", "i", "o", "n">>) THEN 9 ELSE 0],
       <<"a", "n", "i", "m", "a", "t", "i", "o", "n">>, 1)

\* \w
IsWordChar(c) == IsAlnum(c) \/ c = "_"

\* .replace(/\bword\b/g, replacement), word made of word characters.
replaceStandalone(s, word, replacement) ==
  LET isWord(j) == j >= 1 /\ j <= Len(s) /\ IsWordChar(s[j])
      at(i) == /\ i + Len(word) - 1 <= Len(s)
               /\ SubSeq(s, i, i + Len(word) - 1) = word
               /\ ~isWord(i - 1) /\ ~isWord(i + Len(word))
  IN substitute(s, [i \in 1..Len(s) |-> IF at(i) THEN Len(word) ELSE 0], replacement, 1)

\* The four replacements of standalone Roman numerals, in the order of the code.
romanToArabic(s) ==
  replaceStandalone(
    replaceStandalone(
      replaceStandalone(
        replaceStandalone(s, <<"I">>, <<"1">>),
        <<"I", "I">>, <<"2">>),
      <<"I", "I", "I">>, <<"3">>),
    <<"I", "V">>, <<"4">>)

\* .replace(/\s*\(KAP\)/gi, ' KAP')
keepKAP(s) ==
  substitute(s,
    [i \in 1..Len(s) |->
       IF matchesAt(s, i + spacesAt(s, i), <<"(", "k", "a", "p", ")">>) THEN spacesAt(s, i) + 5 ELSE 0],
    <<" ", "K", "A", "P">>, 1)

\* .replace(/\s*\(.*?\)/g, '')
dropParentheticals(s) ==
  LET open(i) == i + spacesAt(s, i)
      closes(i) == {j \in (open(i) + 1)..Len(s) : s[j] = ")"}
  IN substitute(s,
       [i \in 1..Len(s) |->
          IF open(i) <= Len(s) /\ s[open(i)] = "(" /\ closes(i) # {}
          THEN Min(closes(i)) - i + 1 ELSE 0],
       <<>>, 1)

\* .replace(/^\*/, '')
dropLeadingAsterisk(s) == IF s # <<>> /\ s[1] = "*" THEN Tail(s) ELSE s

\* .replace(/\s*-\s*(VirSup|VirInstDay|SummerVir).*$/i, '')
dropVirtualSuffix(s) ==
  LET dash(i) == i + spacesAt(s, i)
      word(i) == dash(i) + 1 + spacesAt(s, dash(i) + 1)
      starts == {i \in 1..Len(s) :
                   /\ dash(i) <= Len(s) /\ s[dash(i)] = "-"
                   /\ \/ matchesAt(s, word(i), <<"v", "i", "r", "s", "u", "p">>)
                      \/ matchesAt(s, word(i), <<"v", "i", "r", "i", "n", "s", "t", "d", "a", "y">>)
                      \/ matchesAt(s, word(i), <<"s", "u", "m", "m", "e", "r", "v", "i", "r">>)}
  IN IF starts = {} THEN s ELSE SubSeq(s, 1, Min(starts) - 1)

\* .replace(/\s+[AB]\s*$/i, '')
dropTrailingMarker(s) ==
  LET letter(i) == i + spacesAt(s, i)
      starts == {i \in 1..Len(s) :
                   /\ IsSpace(s[i])
                   /\ letter(i) <= Len(s) /\ IsABMarker(s[letter(i)])
                   /\ spacesAt(s, letter(i) + 1) = Len(s) - letter(i)}
  IN IF starts = {} THEN s ELSE SubSeq(s, 1, Min(starts) - 1)

\* .replace(/\s*&\s*/g, ' and ')
ampersandToAnd(s) ==
  LET amp(i) == i + spacesAt(s, i)
  IN substitute(s,
       [i \in 1..Len(s) |->
          IF amp(i) <= Len(s) /\ s[amp(i)] = "&"
          THEN spacesAt(s, i) + 1 + spacesAt(s, amp(i) + 1) ELSE 0],
       <<" ", "a", "n", "d", " ">>, 1)

\* .replace(/\s+/g, ' ')
collapseWhitespace(s) ==
  substitute(s, [i \in 1..Len(s) |-> IF IsSpace(s[i]) THEN spacesAt(s, i) ELSE 0], <<" ">>, 1)

normalizeForMatching(name) ==
  LET typosFixed   == fixTypos(trim(name))
      parentheses  == dropParentheticals(keepKAP(romanToArabic(typosFixed)))
      suffixes     == dropTrailingMarker(dropVirtualSuffix(dropLeadingAsterisk(parentheses)))
      normalized   == trim(collapseWhitespace(ampersandToAnd(suffixes)))
  IN toLowerCase(normalized)


-----------------------------------------------------------------------------
(* Prerequisite Resolver, findCourseCode: scrape.ts 944-1201 *)

\* String.prototype.startsWith
startsWith(s, prefix) == Len(prefix) <= Len(s) /\ SubSeq(s, 1, Len(prefix)) = prefix

\* String.prototype.replace with a string pattern: the first occurrence is replaced.
replaceFirst(s, pattern, replacement) ==
  LET at == {i \in 1..(Len(s) - Len(pattern) + 1) : SubSeq(s, i, i + Len(pattern) - 1) = pattern}
  IN IF at = {} THEN s
     ELSE SubSeq(s, 1, Min(at) - 1) \o replacement \o SubSeq(s, Min(at) + Len(pattern), Len(s))

\* A Map that gives each courseName the name itself in place of the code.
nameToCodeMapOfNames(courses) ==
  [k \in 1..Len(courses) |->
     [courseName |-> trim(courses[k].courseName), courseCode |-> trim(courses[k].courseName)]]

\* The Map from courseName to courseCode, in insertion order: the first code of a
\* name is kept, a course with an empty name or code is passed over.
nameToCodeMap(courses) ==
  LET named(i) == trim(courses[i].courseName) # <<>> /\ trim(courses[i].courseCode) # <<>>
      first(i) == /\ named(i)
                  /\ \A h \in 1..(i - 1) :
                       named(h) => trim(courses[h].courseName) # trim(courses[i].courseName)
      kept == SelectSeq([i \in 1..Len(courses) |-> i], first)
  IN [k \in 1..Len(kept) |->
        [courseName |-> trim(courses[kept[k]].courseName),
         courseCode |-> trim(courses[kept[k]].courseCode)]]

allCourseCodes(courses) ==
  {trim(courses[i].courseCode) : i \in {i \in 1..Len(courses) : trim(courses[i].courseCode) # <<>>}}

\* A test that takes no text for a course code of the catalog.
isCourseCodeNever(courses, code) == FALSE

isCourseCode(courses, code) == code \in allCourseCodes(courses)

\* /^\d+$/.test(text), without the Roman numerals.
isStandaloneNumberDigits(text) ==
  text # <<>> /\ \A i \in 1..Len(text) : IsDigit(text[i])

\* /^\d+$/.test(text) || /^[IVX]+$/i.test(text)
isStandaloneNumber(text) ==
  /\ text # <<>>
  /\ \/ \A i \in 1..Len(text) : IsDigit(text[i])
     \/ \A i \in 1..Len(text) : Lower(text[i]) \in {"i", "v", "x"}

\* trimmed.toLowerCase().startsWith('corequisite:')
hasCorequisitePrefix(text) == matchesAt(text, 1, <<"c", "o", "r", "e", "q", "u", "i", "s", "i", "t", "e", ":">>)

\* The text after the clean-up of a leading "corequisite:": scrape.ts 1035-1043.
withoutCorequisite(text) ==
  IF hasCorequisitePrefix(text)
  THEN trim(SubSeq(text, 13 + spacesAt(text, 13), Len(text)))
  ELSE text

\* The abbreviation table, in the order Object.entries lists it.
abbreviationMap ==
  <<[abbr |-> <<"a", "s", "l">>, full |-> <<"a", "m", "e", "r", "i", "c", "a", "n", " ", "s", "i", "g", "n", " ", "l", "a", "n", "g", "u", "a", "g", "e">>],
    [abbr |-> <<"e", "n", "g", "l">>, full |-> <<"e", "n", "g", "l", "i", "s", "h">>],
    [abbr |-> <<"a", "d", "v", "a", "n", "c", "e", "d", " ", "p", "l", "a", "c", "e", "m", "e", "n", "t", " ", "l", "a", "n", "g", "u", "a", "g", "e", " ", "a", "n", "d", " ", "c", "o", "m", "p", "o", "s", "i", "t", "i", "o", "n">>, full |-> <<"a", "p", " ", "e", "n", "g", "l", "i", "s", "h", " ", "l", "a", "n", "g", "u", "a", "g", "e">>],
    [abbr |-> <<"a", "p", " ", "l", "a", "n", "g", "u", "a", "g", "e", " ", "a", "n", "d", " ", "c", "o", "m", "p", "o", "s", "i", "t", "i", "o", "n">>, full |-> <<"a", "p", " ", "e", "n", "g", "l", "i", "s", "h", " ", "l", "a", "n", "g", "u", "a", "g", "e">>],
    [abbr |-> <<"c", "i", "s", "c", "o", " ", "n", "e", "t", "w", "o", "r", "k", " ", "e", "n", "g", "i", "n", "e", "e", "r", "i", "n", "g">>, full |-> <<"n", "e", "t", "w", "o", "r", "k", " ", "e", "n", "g", "i", "n", "e", "e", "r", "i", "n", "g">>],
    [abbr |-> <<"n", "e", "t", "w", "o", "r", "k", " ", "e", "n", "g", "i", "n", "e", "e", "r", "i", "n", "g", " ", "i", "/", "l", "a", "b">>, full |-> <<"n", "e", "t", "w", "o", "r", "k", " ", "e", "n", "g", "i", "n", "e", "e", "r", "i", "n", "g", " ", "1">>],
    [abbr |-> <<"n", "e", "t", "w", "o", "r", "k", " ", "e", "n", "g", "i", "n", "e", "e", "r", "i", "n", "g", " ", "i", " ", "l", "a", "b">>, full |-> <<"n", "e", "t", "w", "o", "r", "k", " ", "e", "n", "g", "i", "n", "e", "e", "r", "i", "n", "g", " ", "1">>]>>

\* expandedPrereq: scrape.ts 1099-1115.
expandPrereq(normalizedPrereq) ==
  LET noLab   == substitute(normalizedPrereq,
                   [i \in 1..Len(normalizedPrereq) |->
                      IF matchesAt(normalizedPrereq, i, <<"/", "l", "a", "b">>) THEN 4 ELSE 0],
                   <<>>, 1)
      noSlash == substitute(noLab,
                   [i \in 1..Len(noLab) |->
                      IF noLab[i] = "/" THEN 1 + spacesAt(noLab, i + 1) ELSE 0],
                   <<" ">>, 1)
      found   == {k \in 1..Len(abbreviationMap) : includes(noSlash, abbreviationMap[k].abbr)}
      expanded == IF found = {} THEN noSlash
                  ELSE replaceFirst(noSlash, abbreviationMap[Min(found)].abbr,
                                    abbreviationMap[Min(found)].full)
  IN IF includes(normalizedPrereq, <<"p", "r", "e", "s", "e", "n", "t", "a", "t", "i", "o", "n">>) /\ includes(normalizedPrereq, <<"1">>)
     THEN <<"e", "n", "g", "i", "n", "e", "e", "r", "i", "n", "g", " ", "d", "e", "s", "i", "g", "n", " ", "a", "n", "d", " ", "p", "r", "e", "s", "e", "n", "t", "a", "t", "i", "o", "n">>
     ELSE expanded

\* baseNameMatch[1].trim() of trimmed.match(/^([A-Za-z\s]+)\s+[0-9IVX]+/i), the empty
\* text when there is no match.
baseNameOf(text) ==
  LET inName(c) == IsSpace(c) \/ (IsAlnum(c) /\ ~IsDigit(c))
      ends == {a \in 1..Len(text) :
                 /\ \A j \in 1..a : inName(text[j])
                 /\ a + 1 <= Len(text) /\ IsSpace(text[a + 1])
                 /\ LET d == a + 1 + spacesAt(text, a + 1)
                    IN d <= Len(text)
                       /\ (IsDigit(text[d]) \/ Lower(text[d]) \in {"i", "v", "x"})}
  IN IF ends = {} THEN <<>> ELSE trim(SubSeq(text, 1, Max(ends)))

\* normalizedPrereq.split(/\s+/).filter(w => w.length > 2), as the places where the
\* words start and the words themselves.
significantWords(text) ==
  LET starts == {i \in 1..Len(text) : ~IsSpace(text[i]) /\ (i = 1 \/ IsSpace(text[i - 1]))}
      wordAt(i) ==
        LET stop == {j \in i..Len(text) : IsSpace(text[j])}
        IN SubSeq(text, i, IF stop = {} THEN Len(text) ELSE Min(stop) - 1)
  IN [i \in {i \in starts : Len(wordAt(i)) > 2} |-> wordAt(i)]

\* The first stage that returned a course code, the empty text when none did.
firstNonEmpty(stages) ==
  LET found == {n \in 1..Len(stages) : stages[n] # <<>>}
  IN IF found = {} THEN <<>> ELSE stages[Min(found)]

\* The matching stages of findCourseCode, scrape.ts 1055-1200, in their order: each
\* stage returns the code of the first entry of the Map that passes its test.
matchingStages(map, normalizedNames, trimmed, normalizedPrereq, expandedPrereq) ==
  LET entries == 1..Len(map)
      name(k) == map[k].courseName
      lowerName(k) == toLowerCase(map[k].courseName)
      normalizedName(k) == normalizedNames[k]
      firstOf(hits) == IF hits = {} THEN <<>> ELSE map[Min(hits)].courseCode
      lowerTrimmed == toLowerCase(trimmed)
      paren(text) == <<"(">> \o text \o <<")">>
      \* 1061-1063
      exact == firstOf({k \in entries : name(k) = trimmed})
      \* 1066-1071
      exactAnyCase == firstOf({k \in entries : lowerName(k) = lowerTrimmed})
      \* 1074-1079
      normalizedMatch == firstOf({k \in entries : normalizedName(k) = normalizedPrereq})
      \* 1082-1087
      partialNormalized ==
        firstOf({k \in entries : \/ startsWith(normalizedName(k), normalizedPrereq)
                                 \/ startsWith(normalizedPrereq, normalizedName(k))})
      \* 1118-1127
      principlesOfArts ==
        IF /\ includes(normalizedPrereq, <<"p", "r", "i", "n", "c", "i", "p", "l", "e", "s">>)
           /\ includes(normalizedPrereq, <<"a", "r", "t", "s">>)
           /\ (includes(normalizedPrereq, <<"a", "u", "d", "i", "o">>) \/ includes(normalizedPrereq, <<"v", "i", "d", "e", "o">>))
        THEN firstOf({k \in entries :
                        /\ includes(normalizedName(k), <<"a", "r", "t", "s">>)
                        /\ \/ includes(normalizedName(k), <<"a", "u", "d", "i", "o">>)
                           \/ includes(normalizedName(k), <<"v", "i", "d", "e", "o">>)})
        ELSE <<>>
      \* 1130-1155
      embedded ==
        firstOf({k \in entries :
          \/ includes(lowerName(k), paren(lowerTrimmed))
          \/ includes(lowerName(k), paren(normalizedPrereq))
          \/ includes(lowerName(k), paren(expandedPrereq))
          \/ /\ \/ includes(normalizedName(k), normalizedPrereq)
                \/ includes(normalizedName(k), expandedPrereq)
             /\ (Len(normalizedPrereq) >= 3 \/ Len(expandedPrereq) >= 3)
          \/ /\ \/ includes(lowerName(k), lowerTrimmed)
                \/ includes(lowerName(k), expandedPrereq)
             /\ (Len(lowerTrimmed) >= 3 \/ Len(expandedPrereq) >= 3)})
      \* 1159-1169
      baseName == baseNameOf(trimmed)
      normalizedBase == normalizeForMatching(baseName)
      byBaseName ==
        IF baseName = <<>> THEN <<>>
        ELSE firstOf({k \in entries : \/ startsWith(normalizedName(k), normalizedBase)
                                      \/ includes(normalizedName(k), normalizedBase)})
      \* 1173-1183
      prereqWords == significantWords(normalizedPrereq)
      fuzzy ==
        IF Cardinality(DOMAIN prereqWords) < 2 THEN <<>>
        ELSE firstOf({k \in entries :
                        \A i \in DOMAIN prereqWords : includes(normalizedName(k), prereqWords[i])})
      \* 1186-1190
      partial ==
        firstOf({k \in entries : startsWith(name(k), trimmed) \/ startsWith(trimmed, name(k))})
      \* 1193-1198
      partialAnyCase ==
        firstOf({k \in entries : \/ startsWith(lowerName(k), lowerTrimmed)
                                 \/ startsWith(lowerTrimmed, lowerName(k))})
  IN firstNonEmpty(<<exact, exactAnyCase, normalizedMatch, partialNormalized, principlesOfArts,
                     embedded, byBaseName, fuzzy, partial, partialAnyCase>>)

\* findCourseCode; null is returned as the empty text (no course code is empty, and
\* the callers only test the result for truth).
findCourseCode(courses, prerequisite) ==
  LET cleaned0 == withoutCorequisite(trim(prerequisite))
  IN IF prerequisite = <<>> \/ trim(prerequisite) = <<>> \/ toLowerCase(prerequisite) = NA
     THEN <<>>
     ELSE IF /\ hasCorequisitePrefix(trim(prerequisite))
             /\ (cleaned0 = <<>> \/ toLowerCase(cleaned0) = NA)
     THEN <<>>
     ELSE IF isStandaloneNumber(cleaned0) THEN <<>>
     ELSE IF isCourseCode(courses, cleaned0) THEN cleaned0
     ELSE matchingStages(nameToCodeMap(courses),
                         [k \in 1..Len(nameToCodeMap(courses)) |->
                            normalizeForMatching(nameToCodeMap(courses)[k].courseName)],
                         fixTypos(cleaned0),
                         normalizeForMatching(fixTypos(cleaned0)),
                         expandPrereq(normalizeForMatching(fixTypos(cleaned0))))


-----------------------------------------------------------------------------
(* Prerequisite Resolver, convertPrerequisite and main: scrape.ts 927-1444 *)

\* String.prototype.split with a regular expression: lens[i] is the length of the
\* separator that starts at place i, 0 when there is none; from is where the piece
\* being read starts.
RECURSIVE splitAt(_, _, _, _)
splitAt(s, lens, i, from) ==
  IF i > Len(s) THEN <<SubSeq(s, from, Len(s))>>
  ELSE IF lens[i] > 0
  THEN <<SubSeq(s, from, i - 1)>> \o splitAt(s, lens, i + lens[i], i + lens[i])
  ELSE splitAt(s, lens, i + 1, from)

\* Array.prototype.join
RECURSIVE join(_, _)
join(parts, separator) ==
  IF parts = <<>> THEN <<>>
  ELSE IF Len(parts) = 1 THEN parts[1]
  ELSE parts[1] \o separator \o join(Tail(parts), separator)

\* The matches of orPattern, /\s+or\s+/i.
orPattern(s) ==
  [i \in 1..Len(s) |->
     LET word == i + spacesAt(s, i)
         after == spacesAt(s, word + 2)
     IN IF IsSpace(s[i]) /\ matchesAt(s, word, <<"o", "r">>) /\ after >= 1
        THEN spacesAt(s, i) + 2 + after ELSE 0]

\* The matches of andPattern, /\s+(and|&)\s+/i.
andPattern(s) ==
  [i \in 1..Len(s) |->
     LET word == i + spacesAt(s, i)
         size == IF matchesAt(s, word, <<"a", "n", "d">>) /\ spacesAt(s, word + 3) >= 1 THEN 3
                 ELSE IF matchesAt(s, word, <<"&">>) /\ spacesAt(s, word + 1) >= 1 THEN 1
                 ELSE 0
     IN IF IsSpace(s[i]) /\ size > 0
        THEN spacesAt(s, i) + size + spacesAt(s, word + size) ELSE 0]

\* regex.test(s), for the matches of a pattern.
test(lens) == \E i \in DOMAIN lens : lens[i] > 0

\* nonCoursePattern.test(part):
\* /\d+\s*(credit|credits|hours?)\s*(of|in)|of\s+(high\s+school|college)/i
nonCoursePattern(part) ==
  LET ofOrIn(i) == matchesAt(part, i, <<"o", "f">>) \/ matchesAt(part, i, <<"i", "n">>)
      unit(i, word) ==
        matchesAt(part, i, word) /\ ofOrIn(i + Len(word) + spacesAt(part, i + Len(word)))
      credits(j) ==
        LET w == j + 1 + spacesAt(part, j + 1)
        IN /\ IsDigit(part[j])
           /\ \/ unit(w, <<"c", "r", "e", "d", "i", "t">>) \/ unit(w, <<"c", "r", "e", "d", "i", "t", "s">>)
              \/ unit(w, <<"h", "o", "u", "r">>) \/ unit(w, <<"h", "o", "u", "r", "s">>)
      level(i) ==
        LET w == i + 2 + spacesAt(part, i + 2)
            s == w + 4 + spacesAt(part, w + 4)
        IN /\ matchesAt(part, i, <<"o", "f">>)
           /\ spacesAt(part, i + 2) >= 1
           /\ \/ matchesAt(part, w, <<"c", "o", "l", "l", "e", "g", "e">>)
              \/ /\ matchesAt(part, w, <<"h", "i", "g", "h">>)
                 /\ spacesAt(part, w + 4) >= 1
                 /\ matchesAt(part, s, <<"s", "c", "h", "o", "o", "l">>)
  IN \E i \in 1..Len(part) : credits(i) \/ level(i)

\* /^[A-Z0-9]+$/.test(p)
looksLikeCode(p) ==
  p # <<>> /\ \A i \in 1..Len(p) : IsDigit(p[i]) \/ Lower(p[i]) # p[i]

\* The parts of a split, trimmed, the empty ones left out.
trimmedParts(pieces) ==
  SelectSeq([k \in 1..Len(pieces) |-> trim(pieces[k])], LAMBDA p : p # <<>>)

\* code ? code : part
orElse(code, part) == IF code # <<>> THEN code ELSE part

\* What the loops over the parts push for a part that is looked up: scrape.ts
\* 1236-1246 and 1273-1282.
converted(courses, part) == orElse(findCourseCode(courses, part), part)

\* convertedParts of the or-branch: scrape.ts 1225-1248.
orConverted(courses, trimmed) ==
  LET parts == SelectSeq(trimmedParts(splitAt(trimmed, orPattern(trimmed), 1, 1)),
                         LAMBDA p : ~isStandaloneNumber(p))
  IN [k \in 1..Len(parts) |-> converted(courses, parts[k])]

\* parts of the and-branch: scrape.ts 1260.
andParts(trimmed) ==
  SelectSeq(trimmedParts(splitAt(trimmed, andPattern(trimmed), 1, 1)),
            LAMBDA p : toLowerCase(p) \notin {<<"a", "n", "d">>, <<"&">>})

\* convertedParts of the and-branch: scrape.ts 1264-1283.
andConverted(courses, parts) ==
  [k \in 1..Len(parts) |->
     IF nonCoursePattern(parts[k]) THEN parts[k] ELSE converted(courses, parts[k])]

\* The branches of convertPrerequisite after the clean-up: scrape.ts 1222-1303.
branches(trimmed, orParts, parts, convertedParts, simple) ==
  LET hasNonCourseText == \E k \in 1..Len(parts) : nonCoursePattern(parts[k])
      allMatched == \A k \in 1..Len(convertedParts) : looksLikeCode(convertedParts[k])
  IN IF test(orPattern(trimmed)) /\ orParts # <<>>
     THEN join(orParts, <<" ", "o", "r", " ">>)
     ELSE IF test(andPattern(trimmed)) /\ convertedParts # <<>>
     THEN IF allMatched /\ ~hasNonCourseText
          THEN join(convertedParts, <<" ", "o", "r", " ">>)
          ELSE join(convertedParts, <<" ", "a", "n", "d", " ">>)
     ELSE simple

convertPrerequisite(courses, prerequisite) ==
  LET trimmed == withoutCorequisite(trim(prerequisite))
  IN IF prerequisite = <<>> \/ trim(prerequisite) = <<>> \/ toLowerCase(prerequisite) = NA
     THEN NA
     ELSE IF /\ hasCorequisitePrefix(trim(prerequisite))
             /\ (trimmed = <<>> \/ toLowerCase(trimmed) = NA)
     THEN NA
     ELSE branches(trimmed, orConverted(courses, trimmed), andParts(trimmed),
                   andConverted(courses, andParts(trimmed)), converted(courses, trimmed))


\* unmatchedPrerequisites.set(prerequisite, count + 1): a text that is present keeps
\* its place in the Map.
countUnmatched(unmatched, prerequisite) ==
  IF \E k \in 1..Len(unmatched) : unmatched[k].prerequisite = prerequisite
  THEN [k \in 1..Len(unmatched) |->
          IF unmatched[k].prerequisite = prerequisite
          THEN [unmatched[k] EXCEPT !.count = @ + 1] ELSE unmatched[k]]
  ELSE Append(unmatched, [prerequisite |-> prerequisite, count |-> 1])

\* isAlreadyCode: scrape.ts 1334-1338.
isAlreadyCode(courses, trimmedOriginal) ==
  /\ trimmedOriginal # <<>>
  /\ \/ isCourseCode(courses, trimmedOriginal)
     \/ /\ includes(trimmedOriginal, <<" ", "o", "r", " ">>)
        /\ LET pieces == splitAt(trimmedOriginal, orPattern(trimmedOriginal), 1, 1)
           IN \A k \in 1..Len(pieces) : isCourseCode(courses, trim(pieces[k]))

\* The test that makes a prerequisite count as unmatched: scrape.ts 1340-1346.
isUnmatched(courses, originalPrerequisite, convertedPrerequisite) ==
  /\ originalPrerequisite # <<>>
  /\ toLowerCase(originalPrerequisite) # NA
  /\ originalPrerequisite = convertedPrerequisite
  /\ \A k \in 1..Len(nameToCodeMap(courses)) :
       nameToCodeMap(courses)[k].courseName # trim(originalPrerequisite)
  /\ ~isAlreadyCode(courses, trim(originalPrerequisite))

\* readFile, JSON.parse and the test of the structure: scrape.ts 933-940.
PreRead ==
  /\ prePc = "read"
  /\ preCatalog' = catalogFile
  /\ preInput' = catalogFile
  /\ prePc' = "loop"
  /\ UNCHANGED <<preI, unmatchedPrerequisites, mergerVars, collapserVars, gpaVars, call, scrapeVars>>

\* One turn of the conversion loop: scrape.ts 1313-1355.
PreCourse ==
  /\ prePc = "loop"
  /\ preI <= Len(preCatalog)
  /\ LET course == preCatalog[preI]
         withSchools == IF course.hasSchools THEN course
                        ELSE [course EXCEPT !.schools = <<>>, !.hasSchools = TRUE]
         originalPrerequisite == course.prerequisite
         convertedPrerequisite == convertPrerequisite(preCatalog, originalPrerequisite)
     IN /\ preCatalog' = [preCatalog EXCEPT ![preI] =
                            [withSchools EXCEPT !.prerequisite = convertedPrerequisite]]
        /\ unmatchedPrerequisites' =
             IF isUnmatched(preCatalog, originalPrerequisite, convertedPrerequisite)
             THEN countUnmatched(unmatchedPrerequisites, originalPrerequisite)
             ELSE unmatchedPrerequisites
  /\ preI' = preI + 1
  /\ UNCHANGED <<prePc, preInput, mergerVars, collapserVars, gpaVars, call, scrapeVars>>

\* Validation and the write: scrape.ts 1392-1403.
PreWrite ==
  /\ prePc = "loop"
  /\ preI > Len(preCatalog)
  /\ IF \A j \in 1..Len(preCatalog) : CourseValid(preCatalog[j])
     THEN /\ catalogFile' = [j \in 1..Len(preCatalog) |-> SchemaParsed(preCatalog[j])]
          /\ prePc' = "done"
     ELSE /\ prePc' = "failed"
          /\ UNCHANGED catalogFile
  /\ UNCHANGED <<preCatalog, preI, unmatchedPrerequisites, preInput, cpc, catalog, gi,
                 groups, bi, newCourses, origin, fileOrigin, mergerVars, gpaVars, call, scrapeVars>>


PreNext == PreRead \/ PreCourse \/ PreWrite

MaxPrerequisites == 2

\* The prerequisite texts of the catalogs the pass is run on: the sentinel, course
\* codes, a course name, texts no stage matches, and compound texts.
PrerequisiteTexts ==
  {NA, <<"0", "1">>, <<"0", "2", "A">>, <<"A", "r", "t", " ", "1">>, <<"Z", "z", "z">>, <<"C", "o", "r", "e", "q", "u", "i", "s", "i", "t", "e", ":", " ", "Z", "z", "z">>,
   <<"Z", "z", "z", " ", "O", "R", " ", " ", "Y", "y", "y">>, <<"A", "r", "t", " ", "1", " ", "o", "r", " ", "Z", "z", "z">>, <<"0", "1", " ", "o", "r", " ", "0", "2", "A">>}

prerequisiteCourse(code, name, text) ==
  [MkCourse(code, name, 1, <<>>, <<>>, NA, <<>>, FALSE) EXCEPT !.prerequisite = text]

PrerequisiteCourses ==
  {prerequisiteCourse(<<"0", "1">>, <<"A", "r", "t", " ", "1">>, text) : text \in PrerequisiteTexts}
  \cup {prerequisiteCourse(<<"0", "2", "A">>, <<"A", "r", "t", " ", "2", " ", "A">>, text) : text \in {NA, <<"0", "1">>, <<"0", "2", "A">>, <<"Z", "z", "z">>}}
  \cup {[prerequisiteCourse(<<"0", "2", "A">>, <<"A", "r", "t", " ", "2", " ", "A">>, NA) EXCEPT !.hasGpa = FALSE, !.gpa = 0]}
  \cup {[prerequisiteCourse(<<"0", "1">>, <<"A", "r", "t", " ", "1">>, NA) EXCEPT !.schools = <<S_L>>, !.hasSchools = TRUE]}

PrerequisitesInit ==
  /\ MergerIdle /\ GpaIdle /\ ScrapeIdle /\ call = NoCall
  /\ cpc = "idle" /\ catalog = <<>> /\ gi = 1 /\ groups = <<>> /\ bi = 1
  /\ newCourses = <<>> /\ origin = <<>>
  /\ catalogFile \in SeqsUpTo(MaxPrerequisites, PrerequisiteCourses)
  /\ fileOrigin = [i \in 1..Len(catalogFile) |-> {i}]
  /\ prePc = "read" /\ preCatalog = <<>> /\ preI = 1 /\ unmatchedPrerequisites = <<>>
  /\ preInput = <<>>

SpecPrerequisites == PrerequisitesInit /\ [][PreNext]_vars

\* The texts the report holds.
reported == {unmatchedPrerequisites[k].prerequisite : k \in 1..Len(unmatchedPrerequisites)}

\* The courses the loop has converted.
convertedCourses == IF prePc = "idle" \/ prePc = "read" THEN {} ELSE 1..(preI - 1)

\* C16: a prerequisite that is the courseCode of a course of the catalog, codes made
\* only of digits included, is the same text after the conversion, in the loop and in
\* the catalog written, and the report of unmatched prerequisites does not hold it.
C16_CodeIsFixedPoint ==
  \A i \in convertedCourses :
    LET x == preInput[i].prerequisite
    IN (\E j \in 1..Len(preInput) : preInput[j].courseCode = x) =>
         /\ convertPrerequisite(preInput, x) = x
         /\ preCatalog[i].prerequisite = x
         /\ x \notin reported
         /\ prePc = "done" => catalogFile[i].prerequisite = x

C16_Witness ==
  /\ prePc = "done"
  /\ \E i, j \in 1..Len(catalogFile) :
       /\ preInput[i].prerequisite = <<"0", "1">>
       /\ preInput[j].courseCode = <<"0", "1">>
       /\ catalogFile[i].prerequisite = <<"0", "1">>
  /\ reported = {}


\* The clauses of a prerequisite: the parts between " or ", else between " and "/"&",
\* else the prerequisite itself.
clausesOf(prerequisite) ==
  LET t == trim(prerequisite)
  IN IF test(orPattern(t)) THEN trimmedParts(splitAt(t, orPattern(t), 1, 1))
     ELSE IF test(andPattern(t)) THEN trimmedParts(splitAt(t, andPattern(t), 1, 1))
     ELSE <<prerequisite>>

\* A clause no matching stage finds a course for: a text that is not the sentinel, not
\* a numeral, not a course code, and for which findCourseCode returns null.
noStageMatches(courses, clause) ==
  /\ trim(clause) # <<>>
  /\ toLowerCase(trim(clause)) # NA
  /\ ~isStandaloneNumber(trim(clause))
  /\ ~isCourseCode(courses, trim(clause))
  /\ findCourseCode(courses, clause) = <<>>

\* C19: when no matching stage finds a course for a prerequisite, or for a clause of a
\* compound prerequisite, the text is in the converted prerequisite as it was (a
\* prerequisite of one clause is the same text after the conversion), the report of
\* unmatched prerequisites holds the prerequisite, and the pass fails only on a
\* course the schema rejects.
C19_UnresolvedKeptAndCounted ==
  /\ \A i \in convertedCourses :
       LET p == preInput[i].prerequisite
           clauses == clausesOf(p)
       IN \A k \in 1..Len(clauses) :
            noStageMatches(preInput, clauses[k]) =>
              /\ includes(preCatalog[i].prerequisite, clauses[k])
              /\ Len(clauses) = 1 => preCatalog[i].prerequisite = p
              /\ p \in reported
  /\ prePc = "failed" => \E j \in 1..Len(preInput) : ~CourseValid(preInput[j])


MaxClauses == 2

\* Clauses of the prerequisites convertPrerequisite is called with: a course name, a
\* text no stage matches, a Roman numeral, an upper-case text no stage matches, texts
\* of fewer than 3 characters once normalized, and a credit requirement.
ConvertClauses ==
  {<<"A", "r", "t", " ", "1">>, <<"Z", "z", "z">>, <<"I", "I">>, <<"P", "E">>, <<"A", "r">>, <<"(", "x", ")">>, <<"2", " ", "c", "r", "e", "d", "i", "t", "s", " ", "o", "f", " ", "A", "r", "t">>}

Connectives == {<<" ", "o", "r", " ">>, <<" ", "a", "n", "d", " ">>, <<" ", "&", " ">>}

RECURSIVE textsOf(_)
textsOf(n) ==
  IF n = 1 THEN ConvertClauses
  ELSE {t \o connective \o clause :
          t \in textsOf(n - 1), connective \in Connectives, clause \in ConvertClauses}

ConvertTexts == UNION {textsOf(n) : n \in 1..MaxClauses}

ConvertCatalogs ==
  {<<prerequisiteCourse(<<"0", "1">>, <<"A", "r", "t", " ", "1">>, NA), prerequisiteCourse(<<"0", "2", "A">>, <<"A", "r", "t", " ", "2", " ", "A">>, NA)>>,
   <<prerequisiteCourse(<<"0", "2", "A">>, <<"A", "r", "t", " ", "2", " ", "A">>, NA)>>}

ConvertInit ==
  /\ MergerIdle /\ CollapserIdle /\ GpaIdle /\ ScrapeIdle /\ PreIdle
  /\ call \in {[fn |-> "convertPrerequisite", args |-> <<courses, prerequisite>>,
                returned |-> FALSE, result |-> <<>>] :
                 courses \in ConvertCatalogs, prerequisite \in ConvertTexts}

ConvertCall ==
  /\ call.fn = "convertPrerequisite"
  /\ ~call.returned
  /\ call' = [call EXCEPT !.returned = TRUE,
                          !.result = convertPrerequisite(call.args[1], call.args[2])]
  /\ UNCHANGED <<mergerVars, collapserVars, gpaVars, preVars, scrapeVars>>

SpecConvert == ConvertInit /\ [][ConvertCall]_vars

convertReturned == call.fn = "convertPrerequisite" /\ call.returned

\* What the clauses of a compound prerequisite become: the course code of a clause
\* that resolves, the literal text of any other clause.
resolvedClauses(courses, clauses) ==
  [k \in 1..Len(clauses) |-> converted(courses, clauses[k])]

\* A bare numeral or Roman numeral.
bareNumeral(clause) ==
  /\ clause # <<>>
  /\ \/ \A i \in 1..Len(clause) : clause[i] \in {"0", "1", "2", "3", "4", "5", "6", "7", "8", "9"}
     \/ \A i \in 1..Len(clause) : clause[i] \in {"I", "V", "X", "i", "v", "x"}

andClauses(prerequisite) ==
  SelectSeq(clausesOf(prerequisite),
            LAMBDA c : toLowerCase(c) \notin {<<"a", "n", "d">>, <<"&">>})

\* What the and-branch makes of a clause: a clause with qualifying text is kept as it
\* is, any other clause is resolved.
andResolved(courses, clauses) ==
  [k \in 1..Len(clauses) |->
     IF nonCoursePattern(clauses[k]) THEN clauses[k] ELSE converted(courses, clauses[k])]

\* C18: a prerequisite split on " and "/"&" is joined with " or " when every resolved
\* clause is the courseCode of a course of the catalog and no clause holds qualifying
\* text, and with " and " in every other case.
C18_OrOnlyForCatalogCodes ==
  (/\ convertReturned
   /\ ~test(orPattern(trim(call.args[2])))
   /\ test(andPattern(trim(call.args[2])))) =>
    LET courses == call.args[1]
        clauses == andClauses(call.args[2])
        resolved == andResolved(courses, clauses)
        allCodes == \A k \in 1..Len(resolved) :
                      \E j \in 1..Len(courses) : courses[j].courseCode = resolved[k]
        qualified == \E k \in 1..Len(clauses) : nonCoursePattern(clauses[k])
    IN call.result = join(resolved, IF allCodes /\ ~qualified THEN <<" ", "o", "r", " ">> ELSE <<" ", "a", "n", "d", " ">>)

\* C20: a prerequisite of one clause whose normalized text has fewer than 3
\* characters, and that is not the name of a course (as written, in another case, or
\* once normalized), is not resolved: the result is the prerequisite itself.
C20_ShortTextNotMatched ==
  (/\ convertReturned
   /\ Len(clausesOf(call.args[2])) = 1
   /\ Len(normalizeForMatching(call.args[2])) < 3
   /\ \A j \in 1..Len(call.args[1]) :
        /\ toLowerCase(call.args[1][j].courseName) # toLowerCase(trim(call.args[2]))
        /\ normalizeForMatching(call.args[1][j].courseName) # normalizeForMatching(call.args[2]))
    => call.result = trim(call.args[2])

-----------------------------------------------------------------------------
(* The four stages that rewrite the catalog, each started by itself *)

StagesInit == MergeInit \/ PipelineInit \/ PrerequisitesInit

StagesNext == MergeNext \/ PipelineNext \/ PreNext

SpecStages == StagesInit /\ [][StagesNext]_vars

\* The list holds only courses CourseSchema accepts: a non-empty courseCode and
\* courseName and a gpa.
accepted(courses) ==
  \A i \in 1..Len(courses) :
    courses[i].courseCode # <<>> /\ courses[i].courseName # <<>> /\ courses[i].hasGpa

\* C21: a stage changes the catalog file only in the step that ends it with success,
\* and then the whole list it writes is accepted by the schema; a stage that has
\* failed has left the file as it was when the stage started.
C21_WrittenOnlyAfterValidation ==
  [][/\ outFile' # outFile =>
          pc' = "done" /\ coursesMap # <<>> /\ accepted(coursesMap)
     /\ catalogFile' # catalogFile =>
          \/ cpc # "done" /\ cpc' = "done" /\ accepted(newCourses)
          \/ gpaPc # "done" /\ gpaPc' = "done" /\ accepted(gpaCatalog)
          \/ prePc # "done" /\ prePc' = "done" /\ accepted(preCatalog)
     /\ pc' = "failed" => outFile' = NoOutput
     /\ cpc' = "failed" => catalogFile' = catalog'
     /\ (gpaPc' = "failed" \/ prePc' = "failed") => catalogFile' = catalogFile
     /\ prePc' = "failed" => catalogFile' = preInput'
    ]_vars

\* The Prerequisite Resolver has failed at the validation of a catalog holding a
\* course without gpa, and the catalog file is the one it read.
C21_Witness ==
  /\ prePc = "failed"
  /\ ~accepted(preCatalog)
  /\ catalogFile # <<>>
  /\ catalogFile = preInput

\* C22: every course of a catalog file a stage has written carries a schools array,
\* and in the file the Merger has written the array of a course is the one
\* accumulated for it in memory.
C22_WrittenCoursesCarrySchools ==
  /\ outFile.written =>
       \A i \in 1..Len(outFile.courses) :
         /\ outFile.courses[i].hasSchools
         /\ outFile.courses[i].schools = coursesMap[i].schools
  /\ (cpc = "done" \/ gpaPc = "done" \/ prePc = "done") =>
       \A i \in 1..Len(catalogFile) : catalogFile[i].hasSchools

-----------------------------------------------------------------------------
(* Pipeline runner with --step all: part_000 127-486.                       *)
(* runner.pc is "scrape" while runScrapers awaits its tasks, "check" while a *)
(* run...Migration function awaits readdir or access, "run" while it awaits  *)
(* the stage's process, "done" after the last stage and "failed" after       *)
(* process.exit(1). runner.step is the index in Steps of the step in hand.   *)

MaxScrapers == 3

Steps == <<"scrape", "merge", "collapse-ab", "gpa", "prerequisites">>

\* The ways a per-school scraper process ends. "close" comes with the exit code, or
\* with none when a signal killed the process; "error" is the spawn error. A fatal
\* error during scraping is caught and logged by the scraper's main, which then
\* returns: scrape.ts 606-610.
ScraperEnds ==
  {[event |-> "close", hasCode |-> TRUE, code |-> 0, cause |-> "completed"],
   [event |-> "close", hasCode |-> TRUE, code |-> 0, cause |-> "fatal error"],
   [event |-> "close", hasCode |-> TRUE, code |-> 1, cause |-> "rejected"],
   [event |-> "close", hasCode |-> FALSE, code |-> 0, cause |-> "signal"],
   [event |-> "error", hasCode |-> FALSE, code |-> 0, cause |-> "spawn error"]}

\* The ways the process of a migration stage ends; each stage ends its catch block
\* with process.exit(1).
StageEnds ==
  {[event |-> "close", hasCode |-> TRUE, code |-> 0, cause |-> "completed"],
   [event |-> "close", hasCode |-> TRUE, code |-> 1, cause |-> "rejected"],
   [event |-> "close", hasCode |-> FALSE, code |-> 0, cause |-> "signal"],
   [event |-> "error", hasCode |-> FALSE, code |-> 0, cause |-> "spawn error"]}

NoEnd == [event |-> "none", hasCode |-> FALSE, code |-> 0, cause |-> "none"]

\* The exitCode runProcess resolves with: `code || 0` on "close", 1 on "error".
runProcess(end) ==
  IF end.event = "error" THEN 1
  ELSE IF end.hasCode /\ end.code # 0 THEN end.code ELSE 0

\* The tasks pLimit has not started yet, and those whose process is running.
queued(r) == {i \in 1..Len(r.tasks) : r.tasks[i] = "queued"}

running(r) == {i \in 1..Len(r.tasks) : r.tasks[i] = "running"}

\* pLimit starts the next task of its queue: a concurrency of 0 stands for the
\* pLimit(Infinity) of a run without --concurrency.
canStart(r) ==
  queued(r) # {} /\ (r.concurrency = 0 \/ Cardinality(running(r)) < r.concurrency)

\* process.exit(1) in the catch block of main.
runnerFailed(r) == [r EXCEPT !.pc = "failed", !.exited = TRUE, !.exitCode = 1]

\* After a task has settled: Promise.all resolves once no task is left, and
\* runScrapers throws when a result is not a success; main goes on with
\* runMergeMigration.
runScrapers(r) ==
  IF queued(r) # {} \/ running(r) # {} THEN r
  ELSE IF \E i \in 1..Len(r.tasks) : r.tasks[i] # "success" THEN runnerFailed(r)
  ELSE [r EXCEPT !.pc = "check", !.step = 2]

\* A task of runScrapers starts: it gives up when shouldAbort is set, and spawns the
\* scraper of its school otherwise.
StartScraper ==
  /\ runner.pc = "scrape"
  /\ canStart(runner)
  /\ LET i == CHOOSE i \in queued(runner) : \A j \in queued(runner) : i <= j
     IN runner' = runScrapers([runner EXCEPT !.tasks[i] =
                                 IF runner.shouldAbort THEN "aborted" ELSE "running"])
  /\ UNCHANGED <<mergerVars, collapserVars, gpaVars, preVars, call, retry, scroll, scraper>>

\* The process of a scraper ends: runProcess resolves and the task returns its result.
\* The tasks pLimit can start have started before the event is handled.
EndScraper ==
  /\ runner.pc = "scrape"
  /\ ~canStart(runner)
  /\ \E i \in running(runner), end \in ScraperEnds :
       runner' = runScrapers(
         [runner EXCEPT !.ends[i] = end,
                        !.tasks[i] = IF runProcess(end) # 0 THEN "failure" ELSE "success",
                        !.shouldAbort = @ \/ runProcess(end) # 0])
  /\ UNCHANGED <<mergerVars, collapserVars, gpaVars, preVars, call, retry, scroll, scraper>>

\* readdir of output/schools in runMergeMigration, or access of the catalog file in
\* the functions of the later stages, has answered: the stage's process is spawned
\* when the files are there, and the function throws when they are not.
CheckFiles ==
  /\ runner.pc = "check"
  /\ \E found \in BOOLEAN :
       runner' = IF found
                 THEN [runner EXCEPT !.pc = "run",
                                     !.started = Append(@, Steps[runner.step])]
                 ELSE runnerFailed(runner)
  /\ UNCHANGED <<mergerVars, collapserVars, gpaVars, preVars, call, retry, scroll, scraper>>

\* The process of a migration stage ends.
EndStage ==
  /\ runner.pc = "run"
  /\ \E end \in StageEnds :
       LET r == [runner EXCEPT !.stageEnds = Append(@, end)]
       IN runner' = IF runProcess(end) # 0 THEN runnerFailed(r)
                    ELSE IF r.step = Len(Steps)
                    THEN [r EXCEPT !.pc = "done", !.exited = TRUE, !.exitCode = 0]
                    ELSE [r EXCEPT !.pc = "check", !.step = @ + 1]
  /\ UNCHANGED <<mergerVars, collapserVars, gpaVars, preVars, call, retry, scroll, scraper>>

\* main with --step all has called runScrapers for a list of schools.
RunnerInit ==
  /\ MergerIdle /\ CollapserIdle /\ GpaIdle /\ PreIdle /\ call = NoCall
  /\ retry = NoRetry /\ scroll = NoScroll /\ scraper = NoScraper
  /\ \E n \in 0..MaxScrapers, concurrency \in 0..2 :
       runner = runScrapers(
         [pc |-> "scrape", step |-> 1, concurrency |-> concurrency,
          shouldAbort |-> FALSE, tasks |-> [i \in 1..n |-> "queued"],
          ends |-> [i \in 1..n |-> NoEnd], started |-> <<"scrape">>,
          stageEnds |-> <<>>, exited |-> FALSE, exitCode |-> 0])

RunnerNext == StartScraper \/ EndScraper \/ CheckFiles \/ EndStage

SpecRunner == RunnerInit /\ [][RunnerNext]_vars

\* The process ended by exiting with code 0.
exitedWithZero(end) == end.event = "close" /\ end.hasCode /\ end.code = 0

\* C23: the stages are started in the order scrape, merge, collapse-ab, gpa,
\* prerequisites; a stage is started only when every process of the stage before it
\* has exited with code 0; and once a process of a stage has ended in another way the
\* runner has exited with a non-zero code, having started no later stage.
C23_StagesInOrderAfterSuccess ==
  /\ \A k \in 1..Len(runner.started) : runner.started[k] = Steps[k]
  /\ Len(runner.started) >= 2 =>
       \A i \in 1..Len(runner.ends) : exitedWithZero(runner.ends[i])
  /\ \A k \in 3..Len(runner.started) : exitedWithZero(runner.stageEnds[k - 2])
  /\ \A k \in 1..Len(runner.stageEnds) :
       ~exitedWithZero(runner.stageEnds[k]) =>
         /\ Len(runner.started) = k + 1
         /\ runner.exited /\ runner.exitCode # 0

\* C24: when the merge stage has been started, the scraper process of every school
\* has ended, and none of them ended by a fatal error during scraping, by a signal,
\* by a spawn error or with a non-zero exit code.
C24_MergeOnlyAfterAllScrapesSucceeded ==
  Len(runner.started) >= 2 =>
    \A i \in 1..Len(runner.tasks) :
      /\ runner.ends[i] # NoEnd
      /\ runner.ends[i].cause = "completed"

-----------------------------------------------------------------------------
(* retryOperation: dom.ts 774-794.                                          *)
(* retry.pc is "call" while the operation is awaited, "delay" while the      *)
(* timer of setTimeout is awaited, "returned" and "thrown" at the end.       *)
(* retry.calls counts the calls of the operation; the error of call n is the *)
(* number n and its value the number n; lastError 0 is null.                 *)

MaxRetries == 4

BaseDelays == {0, 250, 500, 1000}

\* The head of the for loop: the operation is called when attempt < maxRetries,
\* and after the loop `lastError || new Error(...)` is thrown.
retryLoop(r) ==
  IF r.attempt < r.maxRetries
  THEN [r EXCEPT !.pc = "call", !.calls = @ + 1]
  ELSE [r EXCEPT !.pc = "thrown"]

\* The operation has resolved: its value is returned.
OperationResolves ==
  /\ retry.pc = "call"
  /\ retry' = [retry EXCEPT !.pc = "returned", !.result = retry.calls]
  /\ UNCHANGED <<mergerVars, collapserVars, gpaVars, preVars, call, runner, scroll, scraper>>

\* The operation has rejected: the catch block keeps the error and waits
\* baseDelay * 2^attempt unless this was the last turn of the loop.
OperationRejects ==
  /\ retry.pc = "call"
  /\ LET r == [retry EXCEPT !.lastError = retry.calls]
     IN retry' = IF r.attempt < r.maxRetries - 1
                 THEN [r EXCEPT !.pc = "delay",
                                !.delays = Append(@, r.baseDelay * 2 ^ r.attempt)]
                 ELSE retryLoop([r EXCEPT !.attempt = @ + 1])
  /\ UNCHANGED <<mergerVars, collapserVars, gpaVars, preVars, call, runner, scroll, scraper>>

\* The timer has fired: the loop goes to its next turn.
DelayElapsed ==
  /\ retry.pc = "delay"
  /\ retry' = retryLoop([retry EXCEPT !.attempt = @ + 1])
  /\ UNCHANGED <<mergerVars, collapserVars, gpaVars, preVars, call, runner, scroll, scraper>>

\* retryOperation(operation, maxRetries, baseDelay) has been called.
RetryInit ==
  /\ MergerIdle /\ CollapserIdle /\ GpaIdle /\ PreIdle /\ call = NoCall
  /\ runner = NoRunner /\ scroll = NoScroll /\ scraper = NoScraper
  /\ \E maxRetries \in 0..MaxRetries, baseDelay \in BaseDelays :
       retry = retryLoop([pc |-> "call", maxRetries |-> maxRetries,
                          baseDelay |-> baseDelay, attempt |-> 0, calls |-> 0,
                          lastError |-> 0, delays |-> <<>>, result |-> 0])

RetryNext == OperationResolves \/ OperationRejects \/ DelayElapsed

SpecRetry == RetryInit /\ [][RetryNext]_vars

\* The call is the one extractCourseData makes: retryOperation(operation, 2, 500).
expandCall == retry.maxRetries = 2 /\ retry.baseDelay = 500

\* C25: in retryOperation(operation, 2, 500) a failing operation is called again up
\* to 2 times after its first failure, the wait before retry k (from 0) is
\* 500 * 2^k and nothing is waited after the last call; the value of the first call
\* that succeeds is returned at once, and the error of the last call is thrown only
\* when the first call and both retries have failed.
C25_TwoRetriesWithGrowingDelays ==
  expandCall =>
    /\ retry.calls <= 3
    /\ \A k \in 1..Len(retry.delays) : retry.delays[k] = 500 * 2 ^ (k - 1)
    /\ retry.pc = "returned" =>
         /\ retry.result = retry.calls
         /\ Len(retry.delays) = retry.calls - 1
    /\ retry.pc = "thrown" =>
         /\ retry.calls = 3
         /\ retry.lastError = 3
         /\ retry.delays = <<500, 1000>>

-----------------------------------------------------------------------------
(* scrollToLoadCourses of the per-school scraper: scrape.ts 39-150.          *)
(* scroll.pc is "loop" at the head of the while loop and "returned" after    *)
(* it; scroll.left tells how the loop was left ("limit", "break" or          *)
(* "maxIterations"). A limit of 0 is the null of a run without --limit.      *)
(* scroll.grew is history: the last turn has seen the count increase.        *)

MaxCount == 2

MAX_SCROLL_ATTEMPTS == 15

\* limit ? Math.ceil(limit / 10) * 2 : 1000
maxIterations(limit) == IF limit # 0 THEN ((limit + 9) \div 10) * 2 ELSE 1000

\* The loop has been left, or is left now because iteration has reached
\* maxIterations.
whileHead(s) ==
  IF s.pc = "loop" /\ s.iteration >= s.maxIterations
  THEN [s EXCEPT !.pc = "returned", !.left = "maxIterations"]
  ELSE s

\* One turn of the while loop, for the three counts of course cards the turn may
\* read from the page.
scrollTurn(s0, countBefore, countAfter, countFinal) ==
  LET s == [s0 EXCEPT !.iteration = @ + 1, !.grew = FALSE,
                      !.previousCount = IF s0.iteration = 0 THEN countBefore ELSE @]
  IN IF s.limit # 0 /\ countBefore >= s.limit
     THEN [s EXCEPT !.pc = "returned", !.left = "limit"]
     ELSE IF countAfter > s.previousCount
     THEN [s EXCEPT !.stableCount = 0, !.previousCount = countAfter, !.grew = TRUE]
     ELSE IF countAfter = s.previousCount
     THEN IF s.stableCount + 1 >= MAX_SCROLL_ATTEMPTS
          THEN [s EXCEPT !.stableCount = @ + 1, !.pc = "returned", !.left = "break"]
          ELSE IF countFinal > countAfter
          THEN [s EXCEPT !.stableCount = 0, !.previousCount = countFinal, !.grew = TRUE]
          ELSE [s EXCEPT !.stableCount = @ + 1]
     ELSE [s EXCEPT !.stableCount = 0, !.previousCount = countAfter]

ScrollTurn ==
  /\ scroll.pc = "loop"
  /\ \E countBefore, countAfter, countFinal \in 0..MaxCount :
       scroll' = whileHead(scrollTurn(scroll, countBefore, countAfter, countFinal))
  /\ UNCHANGED <<mergerVars, collapserVars, gpaVars, preVars, call, runner, retry, scraper>>

\* scrollToLoadCourses(page, limit) has been called.
ScrollInit ==
  /\ MergerIdle /\ CollapserIdle /\ GpaIdle /\ PreIdle /\ call = NoCall
  /\ runner = NoRunner /\ retry = NoRetry /\ scraper = NoScraper
  /\ \E limit \in 0..MaxCount :
       scroll = whileHead([pc |-> "loop", limit |-> limit,
                           maxIterations |-> maxIterations(limit), iteration |-> 0,
                           previousCount |-> 0, stableCount |-> 0, grew |-> FALSE,
                           left |-> "none"])

\* The awaits of a turn resolve (each waits for a timeout or reads the page), so the
\* loop goes on as long as its condition holds.
SpecScroll == ScrollInit /\ [][ScrollTurn]_vars /\ WF_vars(ScrollTurn)

\* C26: with no course limit the loop is left as soon as the count has stayed
\* unchanged for 3 consecutive turns, a turn that sees the count increase sets the
\* stability counter to 0, and the loop is left at last.
C26_LeavesAfterThreeStableTurns ==
  /\ [](scroll.limit = 0 =>
          /\ scroll.pc = "loop" => scroll.stableCount < 3
          /\ scroll.left = "break" => scroll.stableCount = 3
          /\ scroll.grew => scroll.stableCount = 0)
  /\ (scroll.limit = 0 => <>(scroll.pc = "returned"))

\* C27: when the Collapser has written the catalog it built from a catalog of
\* pairwise distinct courseCodes, the courseCodes of the written catalog are
\* pairwise distinct.
C27_CollapsedCodesDistinct ==
  (cpc = "done" /\ distinctCodes(catalog)) => distinctCodes(catalogFile)

\* C28: converting the result of convertPrerequisite again, over the same catalog,
\* gives that result.
C28_ConvertIdempotent ==
  convertReturned =>
    convertPrerequisite(call.args[1], call.result) = call.result

-----------------------------------------------------------------------------
(* findCourseCode called by itself, on the text of one clause *)

FindTexts ==
  ConvertClauses \cup
  {NA, <<"0", "1">>, <<"0", "2", "A">>, <<"A", "r", "t", " ", "2", " ", "A">>, <<"a", "r", "t", " ", "1">>, <<"A", "r", "t", " ", "2">>, <<"A", "r", "t">>,
   <<"C", "o", "r", "e", "q", "u", "i", "s", "i", "t", "e", ":", " ", "A", "r", "t", " ", "1">>, <<" ", "A", "r", "t", " ", "1", " ">>}

FindCatalogs ==
  ConvertCatalogs \cup
  {<<>>,
   <<prerequisiteCourse(<<"0", "1">>, <<"A", "r", "t", " ", "1">>, NA)>>,
   <<prerequisiteCourse(<<"0", "2", "A">>, <<"A", "r", "t", " ", "2", " ", "A">>, NA), prerequisiteCourse(<<"0", "1">>, <<"A", "r", "t", " ", "1">>, NA)>>}

FindCourseCodeInit ==
  /\ MergerIdle /\ CollapserIdle /\ GpaIdle /\ ScrapeIdle /\ PreIdle
  /\ call \in {[fn |-> "findCourseCode", args |-> <<courses, prerequisite>>,
                returned |-> FALSE, result |-> <<>>] :
                 courses \in FindCatalogs, prerequisite \in FindTexts}

FindCourseCodeCall ==
  /\ call.fn = "findCourseCode"
  /\ ~call.returned
  /\ call' = [call EXCEPT !.returned = TRUE,
                          !.result = findCourseCode(call.args[1], call.args[2])]
  /\ UNCHANGED <<mergerVars, collapserVars, gpaVars, preVars, scrapeVars>>

SpecFindCourseCode == FindCourseCodeInit /\ [][FindCourseCodeCall]_vars

\* C29: what findCourseCode returns is null or the courseCode of a course of the
\* catalog it was called over.
C29_FoundCodeExists ==
  (call.fn = "findCourseCode" /\ call.returned) =>
    \/ call.result = <<>>
    \/ \E j \in 1..Len(call.args[1]) : call.args[1][j].courseCode = call.result

\* findCourseCode has resolved a name written in another case, through a stage that
\* is not the exact match, to the code of the course of that name.
C29_Witness ==
  /\ call.fn = "findCourseCode" /\ call.returned
  /\ call.args[2] = <<"a", "r", "t", " ", "1">>
  /\ call.result = <<"0", "1">>
  /\ \E j \in 1..Len(call.args[1]) : call.args[1][j].courseCode = <<"0", "1">>

-----------------------------------------------------------------------------
(* Per-school scraper, from loadExistingCourses to the final save:           *)
(* scrape.ts 276-355 and 440-610.                                            *)
(* scraper.pc is "cards" until findCourseCards has answered, "loop" in the   *)
(* loop over coursesToProcess and until the final save, "done" when main     *)
(* has returned and "failed" when its catch block has logged a fatal error.  *)
(* scraper.file is the output file of the school; scraper.before (the file   *)
(* when the run started) and scraper.finalSave (the final save was called)   *)
(* are history. Maps are lists in the order Object.values gives.             *)

MaxCards == 4

MaxExisting == 2

\* The interval is 200 in the code (scrape.ts 32); the saves depend on it only
\* through the count of new courses reaching it.
CHECKPOINT_INTERVAL == 2

CardCodes == {<<"0", "1", "0", "1", "A">>, <<"0", "1", "0", "1", "B">>, <<"0", "2", "0", "2", "A">>, <<"0", "3", "0", "3", "A">>}

\* The card lists findCourseCards returns: it passes over a code it has seen.
CardLists == {cards \in SeqsUpTo(MaxCards, CardCodes) :
                \A a, b \in 1..Len(cards) : a # b => cards[a] # cards[b]}

\* What extractCourseData returns for a card: createCourse does not copy the schools
\* it is given and CourseSchema.parse declares none, so the course has no schools.
extractCourseData(courseCode) ==
  SchemaParsed(MkCourse(trim(courseCode), <<"A", "r", "t", " ", "1">>, 1, <<>>, <<>>, NA, <<>>, FALSE))

\* course.schools.forEach(sch => { if (!existingCourse.schools.includes(sch)) ... })
\* throws a TypeError when course.schools is undefined, and when a school is to be
\* looked up in an existingCourse.schools that is undefined.
pushThrows(existingCourse, course) ==
  ~course.hasSchools \/ (course.schools # <<>> /\ ~existingCourse.hasSchools)

\* The loop that merges a list of courses into a map by courseCode: scrape.ts
\* 320-333 and 565-577. It ends at the first TypeError.
RECURSIVE mergeByCode(_, _)
mergeByCode(map, courses) ==
  IF courses = <<>> THEN [throws |-> FALSE, map |-> map]
  ELSE IF ~hasKey(map, Head(courses).courseCode)
  THEN mergeByCode(mapInsert(map, Head(courses)), Tail(courses))
  ELSE IF pushThrows(map[keyIndex(map, Head(courses).courseCode)], Head(courses))
  THEN [throws |-> TRUE, map |-> map]
  ELSE mergeByCode(
         [map EXCEPT ![keyIndex(map, Head(courses).courseCode)].schools =
                        mergeArrays(@, Head(courses).schools)],
         Tail(courses))

\* saveCourses: the merge, CourseCatalogSchema.parse and the write. The scraper is
\* returned as it is after the call, or with pc "failed" when the call has thrown.
saveCourses(s, courses) ==
  LET merged == mergeByCode(s.existingCoursesMap, courses)
  IN IF merged.throws \/ \E k \in 1..Len(merged.map) : ~CourseValid(merged.map[k])
     THEN [s EXCEPT !.pc = "failed"]
     ELSE [s EXCEPT !.file = [exists |-> TRUE,
                              courses |-> [k \in 1..Len(merged.map) |->
                                             SchemaParsed(merged.map[k])]]]

\* The checkpoint of a turn of the loop: scrape.ts 558-580.
checkpoint(s) ==
  IF Len(s.newCoursesMap) - s.coursesSavedCount < CHECKPOINT_INTERVAL THEN s
  ELSE IF saveCourses(s, s.newCoursesMap).pc = "failed"
  THEN saveCourses(s, s.newCoursesMap)
  ELSE IF mergeByCode(s.existingCoursesMap, s.newCoursesMap).throws
  THEN [saveCourses(s, s.newCoursesMap) EXCEPT !.pc = "failed"]
  ELSE [saveCourses(s, s.newCoursesMap) EXCEPT
          !.existingCoursesMap = mergeByCode(s.existingCoursesMap, s.newCoursesMap).map,
          !.coursesSavedCount = Len(s.newCoursesMap)]

\* loadExistingCourses has answered and the page is loaded; findCourseCards gives
\* the cards of the school, and those whose code is in the file are filtered out.
ListCards ==
  /\ scraper.pc = "cards"
  /\ \E courseInfoList \in CardLists :
       LET newCourseInfoList ==
             SelectSeq(courseInfoList, LAMBDA code : code \notin scraper.existingCodes)
       IN scraper' = IF newCourseInfoList = <<>>
                     THEN [scraper EXCEPT !.pc = "done"]
                     ELSE [scraper EXCEPT !.pc = "loop",
                                          !.coursesToProcess = newCourseInfoList]
  /\ UNCHANGED <<mergerVars, collapserVars, gpaVars, preVars, call, runner, retry, scroll>>

\* One turn of the loop over coursesToProcess: extractCourseData returns a course
\* or null, the course is put in newCoursesMap, and a checkpoint is saved when
\* CHECKPOINT_INTERVAL new courses have come since the last one.
ExtractCourse ==
  /\ scraper.pc = "loop"
  /\ scraper.i < Len(scraper.coursesToProcess)
  /\ \E found \in BOOLEAN :
       LET s == [scraper EXCEPT !.i = @ + 1]
           courseData == extractCourseData(scraper.coursesToProcess[scraper.i + 1])
       IN scraper' =
            IF ~found THEN checkpoint(s)
            ELSE IF ~hasKey(s.newCoursesMap, courseData.courseCode)
            THEN checkpoint([s EXCEPT !.newCoursesMap = mapInsert(@, courseData)])
            ELSE IF pushThrows(s.newCoursesMap[keyIndex(s.newCoursesMap, courseData.courseCode)],
                               courseData)
            THEN [s EXCEPT !.pc = "failed"]
            ELSE checkpoint(
                   [s EXCEPT !.newCoursesMap[keyIndex(s.newCoursesMap, courseData.courseCode)].schools =
                               mergeArrays(@, courseData.schools)])
  /\ UNCHANGED <<mergerVars, collapserVars, gpaVars, preVars, call, runner, retry, scroll>>

\* After the loop: main returns when nothing was extracted and no file was loaded,
\* and calls saveCourses with all the new courses otherwise.
FinalSave ==
  /\ scraper.pc = "loop"
  /\ scraper.i = Len(scraper.coursesToProcess)
  /\ scraper' =
       IF scraper.newCoursesMap = <<>> /\ scraper.existingCodes = {}
       THEN [scraper EXCEPT !.pc = "done"]
       ELSE LET s == saveCourses([scraper EXCEPT !.finalSave = TRUE], scraper.newCoursesMap)
            IN IF s.pc = "failed" THEN s ELSE [s EXCEPT !.pc = "done"]
  /\ UNCHANGED <<mergerVars, collapserVars, gpaVars, preVars, call, runner, retry, scroll>>

\* The output files a run can find: none, or a file an earlier run has written.
ExistingFiles ==
  {[exists |-> FALSE, courses |-> <<>>]} \cup
  {[exists |-> TRUE, courses |-> [k \in 1..Len(cards) |-> extractCourseData(cards[k])]] :
     cards \in {c \in CardLists : Len(c) \in 1..MaxExisting}}

\* main of the scraper has loaded the output file of its school.
ScraperInit ==
  /\ MergerIdle /\ CollapserIdle /\ GpaIdle /\ PreIdle /\ call = NoCall
  /\ runner = NoRunner /\ retry = NoRetry /\ scroll = NoScroll
  /\ \E file \in ExistingFiles :
       scraper = [pc |-> "cards", file |-> file, before |-> file,
                  existingCoursesMap |-> mergeByCode(<<>>, file.courses).map,
                  existingCodes |-> {file.courses[k].courseCode : k \in 1..Len(file.courses)},
                  coursesToProcess |-> <<>>, i |-> 0, newCoursesMap |-> <<>>,
                  coursesSavedCount |-> 0, finalSave |-> FALSE]

ScraperNext == ListCards \/ ExtractCourse \/ FinalSave

SpecScraper == ScraperInit /\ [][ScraperNext]_vars

\* The courseCodes of the courses of a list.
codesIn(courses) == {courses[k].courseCode : k \in 1..Len(courses)}

\* The output file holds no courseCode twice.
eachCodeOnce == distinctCodes(scraper.file.courses)

\* The output file holds every course of the file the run started from.
keepsEarlierCourses ==
  \A k \in 1..Len(scraper.before.courses) :
    \E j \in 1..Len(scraper.file.courses) :
      scraper.file.courses[j] = scraper.before.courses[k]

\* No schools list of the output file holds a name twice.
noSchoolTwice ==
  \A k \in 1..Len(scraper.file.courses) :
    \A a, b \in 1..Len(scraper.file.courses[k].schools) :
      a # b => scraper.file.courses[k].schools[a] # scraper.file.courses[k].schools[b]

\* No card whose code was in the file is processed.
notExtractedAgain ==
  \A k \in 1..Len(scraper.coursesToProcess) :
    scraper.coursesToProcess[k] \notin codesIn(scraper.before.courses)

\* Once the final save has been called, the output file holds the code of every
\* course extracted in the run.
extractedAreSaved ==
  scraper.finalSave => codesIn(scraper.newCoursesMap) \subseteq codesIn(scraper.file.courses)

\* C30: through the checkpoint saves and the final save of a run, resumed or not, the
\* output file holds each courseCode (of the file before the run, and after the final
\* save of the courses extracted in the run) exactly once, it keeps every course
\* that was in the file before the run, no schools list of it holds a name twice,
\* and no course whose code was in the file is extracted again.
C30_SavesKeepEachCodeOnce ==
  /\ eachCodeOnce
  /\ keepsEarlierCourses
  /\ noSchoolTwice
  /\ notExtractedAgain
  /\ extractedAreSaved

====
